---- MODULE Spec2Model ----
(***************************************************************************)
(* Statutory bonus computation and HR reconciliation.                      *)
(*                                                                         *)
(* Modelled code:                                                          *)
(*   src/src/lib/bonus-calculator.ts     BonusCalculator (the rule engine) *)
(*   src/src/lib/excel.ts                parseStaffFile, parseWorkerFile,  *)
(*       parseDueVoucherList, parseHRComparisonFile, groupByDepartments,   *)
(*       the row formulas of generateStaffSheet and generateWorkerSheet    *)
(*   src/src/app/api/generate/route.ts   POST (the regrouped report)       *)
(*   src/src/app/api/process/route.ts    POST (calculate + reconcile)      *)
(*   src/src/app/api/monthly-summary/route.ts lines 402-531: a second POST *)
(*       handler stored in the same file (calculate + one-field compare)   *)
(*                                                                         *)
(* Numbers.  A JavaScript number holding money is modelled as an integer   *)
(* count of hundredths of a currency unit (2511.00 is 251100, 0.5 is 50).  *)
(* A percentage is an integer count of hundredths of a percent (8.33 is    *)
(* 833).  Arithmetic is exact; the inputs are multiples of 0.05 so that    *)
(* 0.6 * x is again a whole number of hundredths.  IEEE-754 rounding error *)
(* is not modelled: it can only matter on an exact .5 tie of a product,    *)
(* which no input of the model produces.                                   *)
(*                                                                         *)
(* Strings.  TLC strings are atomic, so every string the code inspects by  *)
(* character (startsWith, split, substring) has its spelling in CharsOf.   *)
(*                                                                         *)
(* Time.  A Date is [kind, y, m, d, h] in UTC, to the hour; the process    *)
(* time zone is taken to be UTC, so getFullYear/getMonth read y and m.     *)
(***************************************************************************)
EXTENDS Integers, Sequences, FiniteSets, TLC

VARIABLES
    staffFile,          \* the uploaded staff file
    workerFile,         \* the uploaded worker file
    employees,          \* allEmployees = [...staffData, ...workerData], or
                        \* the argument of a direct call of calculateBonus
    dueVoucherFile,     \* the optional due-voucher upload
    dueVoucherMap,      \* [given, entries]: id -> [alreadyPaid, unpaid, dept]
    loanMap,            \* [given, entries]: id -> amount
    percentageMap,      \* [given, entries]: id -> percent
    hrComparisonFile,   \* "none" or "given": the optional upload
    clockReads,         \* the values successive `new Date()` calls return
    bonusCalculations,  \* the BonusCalculation[] of the response
    hrBonusMap,         \* the map parseHRComparisonFile returned
    comparisonResults,  \* [isNull, rows]
    report,             \* [status, departments]: the regrouped report
    pc                  \* "request", "process_done", "calculate_done",
                        \* "bad_request", "called", "threw"

vars == << staffFile, workerFile, employees, dueVoucherFile, dueVoucherMap, loanMap,
           percentageMap, hrComparisonFile, clockReads, bonusCalculations,
           hrBonusMap, comparisonResults, report, pc >>

----------------------------------------------------------------------------
(* Strings by character *)

\* The characters of a string, each a string of length one
CharsOf(s) == [i \in 1..Len(s) |-> SubSeq(s, i, i)]

\* String.prototype.startsWith
StartsWith(s, prefix) ==
    LET cs == CharsOf(s)
        cp == CharsOf(prefix)
    IN  /\ Len(cs) >= Len(cp)
        /\ SubSeq(cs, 1, Len(cp)) = cp

\* The position of the first `sep` in cs, or Len(cs) + 1
RECURSIVE IndexOfChar(_, _, _)
IndexOfChar(cs, sep, i) ==
    IF i > Len(cs) THEN i
    ELSE IF cs[i] = sep THEN i
    ELSE IndexOfChar(cs, sep, i + 1)

\* s.split(sep)[0]
SplitFirst(cs, sep) == SubSeq(cs, 1, IndexOfChar(cs, sep, 1) - 1)

UpperChar(c) ==
    CASE c = "a" -> "A" [] c = "b" -> "B" [] c = "c" -> "C" [] c = "d" -> "D"
      [] c = "e" -> "E" [] c = "f" -> "F" [] c = "g" -> "G" [] c = "h" -> "H"
      [] c = "i" -> "I" [] c = "j" -> "J" [] c = "k" -> "K" [] c = "l" -> "L"
      [] c = "m" -> "M" [] c = "n" -> "N" [] c = "o" -> "O" [] c = "p" -> "P"
      [] c = "q" -> "Q" [] c = "r" -> "R" [] c = "s" -> "S" [] c = "t" -> "T"
      [] c = "u" -> "U" [] c = "v" -> "V" [] c = "w" -> "W" [] c = "x" -> "X"
      [] c = "y" -> "Y" [] c = "z" -> "Z"
      [] OTHER -> c

\* String.prototype.toUpperCase
ToUpperCase(cs) == [i \in 1..Len(cs) |-> UpperChar(cs[i])]

\* s.substring(0, n)
Substring0(cs, n) == SubSeq(cs, 1, IF Len(cs) < n THEN Len(cs) ELSE n)

\* The string of a sequence of characters
RECURSIVE StringOf(_)
StringOf(cs) == IF cs = << >> THEN "" ELSE Head(cs) \o StringOf(Tail(cs))

\* s.toUpperCase() of a string, as a string
UpperOf(s) == StringOf(ToUpperCase(CharsOf(s)))

\* How many characters of cs from position i on belong to the class S
RECURSIVE RunLen(_, _, _)
RunLen(cs, i, S) ==
    IF i > Len(cs) \/ cs[i] \notin S THEN 0 ELSE 1 + RunLen(cs, i + 1, S)

\* String.prototype.trim, for blanks
RECURSIVE TrimEnd(_)
TrimEnd(cs) ==
    IF cs # << >> /\ cs[Len(cs)] = " " THEN TrimEnd(SubSeq(cs, 1, Len(cs) - 1))
    ELSE cs

Trim(cs) == TrimEnd(SubSeq(cs, RunLen(cs, 1, { " " }) + 1, Len(cs)))

\* String.prototype.includes, for one character
IncludesChar(cs, c) == \E i \in 1..Len(cs) : cs[i] = c

\* String.prototype.endsWith
EndsWith(cs, suffix) ==
    /\ Len(cs) >= Len(suffix)
    /\ SubSeq(cs, Len(cs) - Len(suffix) + 1, Len(cs)) = suffix

UpperLetters ==
    { "A", "B", "C", "D", "E", "F", "G", "H", "I", "J", "K", "L", "M",
      "N", "O", "P", "Q", "R", "S", "T", "U", "V", "W", "X", "Y", "Z" }

Digits == { "0", "1", "2", "3", "4", "5", "6", "7", "8", "9" }

----------------------------------------------------------------------------
(* Numbers *)

\* Math.round(n / d) of an amount in hundredths (d > 0): floor(x + 0.5) with
\* x = n / (100 * d) units, returned in hundredths again, so that a whole
\* number is a multiple of 100.
RoundRatio(n, d) == ((n + 50 * d) \div (100 * d)) * 100

MathRound(x) == RoundRatio(x, 1)

\* Math.round((x * p) / 100) for x in hundredths and a percentage p in
\* hundredths: RoundRatio(x * p, 10000), with x taken apart at 10000 so
\* that no product leaves the 32-bit integers
RoundPercent(x, p) ==
    LET q == x \div 10000
        r == x % 10000
        a == (q * p) \div 100
        b == (q * p) % 100
    IN  (a + (b * 10000 + r * p + 500000) \div 1000000) * 100

MathAbs(x) == IF x < 0 THEN 0 - x ELSE x

MathMax(a, b) == IF a > b THEN a ELSE b

RECURSIVE SumSeq(_)
SumSeq(s) == IF s = << >> THEN 0 ELSE Head(s) + SumSeq(Tail(s))

----------------------------------------------------------------------------
(* Dates *)

\* Days from 1970-01-01 to the civil date y-m-d (m in 1..12)
DaysFromCivil(y, m, d) ==
    LET yy  == IF m <= 2 THEN y - 1 ELSE y
        era == yy \div 400
        yoe == yy - era * 400
        mp  == IF m > 2 THEN m - 3 ELSE m + 9
        doy == (153 * mp + 2) \div 5 + d - 1
        doe == yoe * 365 + yoe \div 4 - yoe \div 100 + doy
    IN  era * 146097 + doe - 719468

\* Date.prototype.getTime, in hours
GetTimeHours(dt) == DaysFromCivil(dt.y, dt.m, dt.d) * 24 + dt.h

DateOf(y, m, d, h) == [kind |-> "date", y |-> y, m |-> m, d |-> d, h |-> h]

\* A Date object whose time value is NaN
InvalidDate == [kind |-> "invalid", y |-> 0, m |-> 0, d |-> 0, h |-> 0]

\* What a doj field holds when it is not a Date object: null, undefined,
\* or a string that is not a date
NullDoj == [kind |-> "null", y |-> 0, m |-> 0, d |-> 0, h |-> 0]
UndefinedDoj == [kind |-> "undefined", y |-> 0, m |-> 0, d |-> 0, h |-> 0]
UnparsableDoj == [kind |-> "string", y |-> 0, m |-> 0, d |-> 0, h |-> 0]

----------------------------------------------------------------------------
(* Lookup maps: an optional Map<string, V>; given = FALSE is `undefined` *)

NoEntries == [k \in {} |-> 0]

NoMap == [given |-> FALSE, entries |-> NoEntries]

MapOf(entries) == [given |-> TRUE, entries |-> entries]

\* map?.has(k), which is also whether map?.get(k) is defined
MapHas(map, k) == map.given /\ k \in DOMAIN map.entries

----------------------------------------------------------------------------
(* BonusCalculator, src/src/lib/bonus-calculator.ts *)

\* A (number | null) slot of monthlySalaries
NullSalary == [isNull |-> TRUE, v |-> 0]

SomeSalary(v) == [isNull |-> FALSE, v |-> v]

\* isValidDOJ, and the filter's `d instanceof Date && !isNaN(d.getTime())`
isValidDOJ(d) == d.kind = "date"

monthMapping ==
    (<< "N", "O", "V" >> :> 0) @@ (<< "D", "E", "C" >> :> 1) @@
    (<< "J", "A", "N" >> :> 2) @@ (<< "F", "E", "B" >> :> 3) @@
    (<< "M", "A", "R" >> :> 4) @@ (<< "A", "P", "R" >> :> 5) @@
    (<< "M", "A", "Y" >> :> 6) @@ (<< "J", "U", "N" >> :> 7) @@
    (<< "J", "U", "L" >> :> 8) @@ (<< "A", "U", "G" >> :> 9) @@
    (<< "S", "E", "P" >> :> 10)

\* data.month.split("-")[0].toUpperCase().substring(0, 3)
monthNameOf(month) == Substring0(ToUpperCase(SplitFirst(CharsOf(month), "-")), 3)

\* The forEach of extractMonthlySalaries from record i on; slot index + 1
\* holds result[index]
RECURSIVE extractFrom(_, _, _)
extractFrom(monthlyData, i, result) ==
    IF i > Len(monthlyData) THEN result
    ELSE LET data == monthlyData[i]
             monthName == monthNameOf(data.month)
         IN  extractFrom(monthlyData, i + 1,
                 IF monthName \in DOMAIN monthMapping /\ data.salary > 0
                 THEN [result EXCEPT ![monthMapping[monthName] + 1] =
                                          SomeSalary(data.salary)]
                 ELSE result)

extractMonthlySalaries(monthlyData) ==
    extractFrom(monthlyData, 1, [i \in 1..11 |-> NullSalary])

\* The values of the non-null slots, in order
SalaryValues(slots) ==
    LET present == SelectSeq(slots, LAMBDA s : ~s.isNull)
    IN  [i \in 1..Len(present) |-> present[i].v]

\* An estimate that averages every recorded salary of December to August
calculateOctSalaryAllPositive(monthlySalaries) ==
    LET augSalary == monthlySalaries[10]
    IN  IF augSalary.isNull \/ augSalary.v = 0 \/ augSalary.v < 100 THEN 0
        ELSE LET validSalaries ==
                     SalaryValues(SelectSeq(SubSeq(monthlySalaries, 2, 10),
                                            LAMBDA s : ~s.isNull /\ s.v > 0))
             IN  IF Len(validSalaries) = 0 THEN 0
                 ELSE RoundRatio(SumSeq(validSalaries), Len(validSalaries))

\* An estimate that divides by the nine months of December to August
calculateOctSalaryOverNineMonths(monthlySalaries) ==
    LET augSalary == monthlySalaries[10]
    IN  IF augSalary.isNull \/ augSalary.v = 0 \/ augSalary.v < 100 THEN 0
        ELSE LET validSalaries ==
                     SalaryValues(SelectSeq(SubSeq(monthlySalaries, 2, 10),
                                            LAMBDA s : ~s.isNull /\ s.v > 100))
             IN  IF Len(validSalaries) = 0 THEN 0
                 ELSE RoundRatio(SumSeq(validSalaries), 9)

calculateOctSalary(monthlySalaries) ==
    LET augSalary == monthlySalaries[10]
    IN  IF augSalary.isNull \/ augSalary.v = 0 \/ augSalary.v < 100 THEN 0
        ELSE LET validSalaries ==
                     SalaryValues(SelectSeq(SubSeq(monthlySalaries, 2, 10),
                                            LAMBDA s : ~s.isNull /\ s.v > 100))
             IN  IF Len(validSalaries) = 0 THEN 0
                 ELSE RoundRatio(SumSeq(validSalaries), Len(validSalaries))

\* [...monthlySalaries, octSalary].filter(not null).reduce(sum)
totalGrossOf(monthlySalaries, octSalary) ==
    SumSeq(SalaryValues(monthlySalaries)) + octSalary

calculateServiceMonths(doj, now) ==
    MathMax(0, (now.y - doj.y) * 12 + (now.m - doj.m))

\* An exception list that lost its entries
customExceptionsNone == { }

customExceptions == { "143", "914" }

isWorkerDept(department) ==
    \/ department = "W"
    \/ department = "M"
    \/ department = "A"
    \/ department = "C"
    \/ StartsWith(department, "Sci Prec") = FALSE

\* A resolution that looks at the override file before the worker rule
calculateBonusPercentageOverrideFirst(empId, doj, pctMap, department, now) ==
    IF MapHas(pctMap, empId) THEN pctMap.entries[empId]
    ELSE IF isWorkerDept(department) /\ empId \notin customExceptions THEN 833
    ELSE LET elapsed == GetTimeHours(now) - GetTimeHours(doj)
         IN  IF elapsed < 8766 THEN 1000
             ELSE IF elapsed < 2 * 8766 THEN 1200
             ELSE 833

\* yearsOfService = (now - doj) / (1000*60*60*24*365.25): one year is 8766 h
calculateBonusPercentage(empId, doj, pctMap, department, now) ==
    IF isWorkerDept(department) /\ empId \notin customExceptions THEN 833
    ELSE IF MapHas(pctMap, empId) THEN pctMap.entries[empId]
    ELSE LET elapsed == GetTimeHours(now) - GetTimeHours(doj)
         IN  IF elapsed < 8766 THEN 1000
             ELSE IF elapsed >= 8766 /\ elapsed < 2 * 8766 THEN 1200
             ELSE 833

\* A basis that takes 60% from the statutory percentage upwards
calculateGross2FromMinimum(totalGrossSalary, bonusPercent) ==
    IF bonusPercent >= 833 THEN (totalGrossSalary * 6) \div 10 ELSE 0

calculateGross2(totalGrossSalary, bonusPercent) ==
    IF bonusPercent = 833 THEN totalGrossSalary
    ELSE IF bonusPercent > 833 THEN (totalGrossSalary * 6) \div 10
    ELSE 0

\* An eligibility rule without the six-month condition of W and M
isEligibleAlways(department, serviceMonths) == TRUE

isEligible(department, serviceMonths) ==
    IF department = "S" \/ StartsWith(department, "Sci Prec") \/ department = "NRTM"
    THEN TRUE
    ELSE IF department = "W" \/ department = "M" THEN serviceMonths >= 6
    ELSE TRUE

\* A register paid at the introductory 10% instead of the statutory 8.33%
registerOfIntroductory(isCashSalary, gross2) ==
    IF isCashSalary THEN 0 ELSE RoundPercent(gross2, 1000)

\* isCashSalary ? 0 : Math.round((gross2 * 8.33) / 100)
registerOf(isCashSalary, gross2) ==
    IF isCashSalary THEN 0 ELSE RoundPercent(gross2, 833)

\* An already-paid amount read for every employee
alreadyPaidOfAnyone(isCashSalary, dvMap, empId) ==
    IF MapHas(dvMap, empId) THEN dvMap.entries[empId].alreadyPaid ELSE 0

\* isCashSalary ? 0 : dueVoucherData?.alreadyPaid || 0
alreadyPaidOf(isCashSalary, dvMap, empId) ==
    IF isCashSalary THEN 0
    ELSE IF MapHas(dvMap, empId) THEN dvMap.entries[empId].alreadyPaid
    ELSE 0

\* isCashSalary ? 0 : dueVoucherData?.unpaid || 0
unpaidOf(isCashSalary, dvMap, empId) ==
    IF isCashSalary THEN 0
    ELSE IF MapHas(dvMap, empId) THEN dvMap.entries[empId].unpaid
    ELSE 0

afterVOf(register, alreadyPaid, unpaid) == register - (alreadyPaid + unpaid)

\* An actual amount that ignores eligibility
actualOfAnyone(eligible, afterV) == afterV

actualOf(eligible, afterV) == IF eligible THEN afterV ELSE 0

reimOf(afterV, actual) == afterV - actual

\* loanMap?.get(emp.empId) || 0
loanAmountOf(lnMap, empId) ==
    IF MapHas(lnMap, empId) THEN lnMap.entries[empId] ELSE 0

\* A final payout that deducts the loan
finalRTGSLessLoan(register, alreadyPaid, unpaid, loanAmount) ==
    register - (alreadyPaid + unpaid) - loanAmount

finalRTGSOf(register, alreadyPaid, unpaid, loanAmount) ==
    register - (alreadyPaid + unpaid)

\* The constants of one pass of the map callback of calculateBonus; now1 is
\* the clock read by calculateServiceMonths, now2 by calculateBonusPercentage
bonusLocals(emp, dvMap, lnMap, pctMap, now1, now2) ==
    LET monthlySalaries  == extractMonthlySalaries(emp.monthlyData)
        octSalary        == calculateOctSalary(monthlySalaries)
        totalGrossSalary == totalGrossOf(monthlySalaries, octSalary)
        serviceMonths    == calculateServiceMonths(emp.doj, now1)
        bonusPercent     == calculateBonusPercentage(emp.empId, emp.doj, pctMap,
                                                     emp.department, now2)
        gross2           == calculateGross2(totalGrossSalary, bonusPercent)
        register         == registerOf(emp.isCashSalary, gross2)
        alreadyPaid      == alreadyPaidOf(emp.isCashSalary, dvMap, emp.empId)
        unpaid           == unpaidOf(emp.isCashSalary, dvMap, emp.empId)
        eligible         == isEligible(emp.department, serviceMonths)
        afterV           == afterVOf(register, alreadyPaid, unpaid)
        actual           == actualOf(eligible, afterV)
        reim             == reimOf(afterV, actual)
        loanAmount       == loanAmountOf(lnMap, emp.empId)
        finalRTGS        == finalRTGSOf(register, alreadyPaid, unpaid, loanAmount)
    IN  [ monthlySalaries |-> monthlySalaries, octSalary |-> octSalary,
          totalGrossSalary |-> totalGrossSalary, serviceMonths |-> serviceMonths,
          bonusPercent |-> bonusPercent, gross2 |-> gross2, register |-> register,
          alreadyPaid |-> alreadyPaid, unpaid |-> unpaid, isEligible |-> eligible,
          afterV |-> afterV, actual |-> actual, reim |-> reim,
          loanAmount |-> loanAmount, finalRTGS |-> finalRTGS ]

\* A final payout emitted as derived
emittedFinalRTGSRaw(loc) == loc.finalRTGS

\* finalRTGS: Math.round(finalRTGS)
emittedFinalRTGS(loc) == MathRound(loc.finalRTGS)

\* The object literal the map callback returns (lines 80-109)
emitCalculation(emp, loc) ==
    [ empId            |-> emp.empId,
      name             |-> emp.name,
      department       |-> emp.department,
      doj              |-> emp.doj,
      serviceMonths    |-> loc.serviceMonths,
      monthlySalaries  |-> loc.monthlySalaries,
      octSalary        |-> loc.octSalary,
      totalGrossSalary |-> MathRound(loc.totalGrossSalary),
      gross2           |-> MathRound(loc.gross2),
      register         |-> MathRound(loc.register),
      alreadyPaid      |-> MathRound(loc.alreadyPaid),
      unpaid           |-> MathRound(loc.unpaid),
      isEligible       |-> loc.isEligible,
      afterV           |-> MathRound(loc.afterV),
      bonusPercent     |-> loc.bonusPercent,
      actual           |-> MathRound(loc.actual),
      reim             |-> MathRound(loc.reim),
      loan             |-> MathRound(loc.loanAmount),
      finalRTGS        |-> emittedFinalRTGS(loc),
      isCashSalary     |-> emp.isCashSalary,
      calculatedBonus  |-> MathRound(loc.register),
      finalBonus       |-> MathRound(loc.finalRTGS),
      monthlyData      |-> emp.monthlyData ]

\* e.doj instanceof Date ? e.doj : new Date(e.doj as any): new Date(null)
\* is the epoch, new Date(undefined) and new Date("soon") are invalid
dateOfDoj(doj) ==
    CASE doj.kind \in { "date", "invalid" } -> doj
      [] doj.kind = "null" -> DateOf(1970, 1, 1, 0)
      [] OTHER -> InvalidDate

\* employees.filter(valid joining date)
safeEmployeesOf(emps) == SelectSeq(emps, LAMBDA e : isValidDOJ(dateOfDoj(e.doj)))

\* The map callback reads emp.doj itself: doj.getFullYear() in
\* calculateServiceMonths is a TypeError when doj is not a Date object
calculateBonusThrows(emps) ==
    \E k \in DOMAIN safeEmployeesOf(emps) :
        safeEmployeesOf(emps)[k].doj.kind # "date"

\* The clock values the k-th pass reads; a run that reads the clock less
\* often than clockReads is long keeps the last value
ReadAt(reads, n) == reads[IF n > Len(reads) THEN Len(reads) ELSE n]

calculateBonus(emps, dvMap, lnMap, pctMap, reads) ==
    LET safeEmployees == safeEmployeesOf(emps)
    IN  [k \in 1..Len(safeEmployees) |->
            emitCalculation(safeEmployees[k],
                bonusLocals(safeEmployees[k], dvMap, lnMap, pctMap,
                            ReadAt(reads, 2 * k - 1), ReadAt(reads, 2 * k)))]

----------------------------------------------------------------------------
(* ExcelProcessor.parseDueVoucherList, src/src/lib/excel.ts *)

\* The due-voucher upload: none, a workbook whose "Sheet1" has the rows
\* (the header first), a workbook without "Sheet1", or bytes that
\* workbook.xlsx.load rejects
NoLedger == [kind |-> "absent", rows |-> << >>]
Ledger(rows) == [kind |-> "sheet1", rows |-> rows]
LedgerWithoutSheet == [kind |-> "nosheet", rows |-> << >>]
CorruptLedger == [kind |-> "corrupt", rows |-> << >>]

\* row.getCell(2).value?.toString().trim()
empCodeOf(row) == StringOf(Trim(CharsOf(row.empCode)))

\* row.getCell(4).value?.toString().trim()?.toUpperCase()
categoryOf(row) == StringOf(ToUpperCase(Trim(CharsOf(row.category))))

\* if (!dueVoucherMap.has(empCode)) dueVoucherMap.set(empCode, { ... })
ensureEntry(map, row) ==
    IF empCodeOf(row) \in DOMAIN map THEN map
    ELSE map @@ (empCodeOf(row) :>
                    [alreadyPaid |-> 0, unpaid |-> 0, dept |-> row.dept])

\* An update that keeps the amount of the last row instead of the sum
addDueVCOverwriting(map, row) ==
    [map EXCEPT ![empCodeOf(row)] =
        [@ EXCEPT !.alreadyPaid = IF categoryOf(row) = "A" THEN row.dueVC ELSE @,
                  !.unpaid      = IF categoryOf(row) = "U" THEN row.dueVC ELSE @]]

\* if (category === "A") entry.alreadyPaid += dueVC;
\* else if (category === "U") entry.unpaid += dueVC
addDueVC(map, row) ==
    [map EXCEPT ![empCodeOf(row)] =
        [@ EXCEPT !.alreadyPaid = IF categoryOf(row) = "A" THEN @ + row.dueVC ELSE @,
                  !.unpaid      = IF categoryOf(row) = "U" THEN @ + row.dueVC ELSE @]]

\* The eachRow callback, for the row at rowNumber
dueVoucherEachRow(map, row, rowNumber) ==
    IF rowNumber <= 1 THEN map
    ELSE IF empCodeOf(row) = "" \/ categoryOf(row) = "" \/ row.dueVC = 0 THEN map
    ELSE addDueVC(ensureEntry(map, row), row)

\* worksheet.eachRow from row i on
RECURSIVE dueVoucherFrom(_, _, _)
dueVoucherFrom(map, rows, i) ==
    IF i > Len(rows) THEN map
    ELSE dueVoucherFrom(dueVoucherEachRow(map, rows[i], i), rows, i + 1)

\* parseDueVoucherList: the map of the rows, an empty map without "Sheet1"
\* and from the catch
parseDueVoucherList(file) ==
    IF file.kind # "sheet1" THEN MapOf(NoEntries)
    ELSE MapOf(dueVoucherFrom(NoEntries, file.rows, 1))

\* let dueVoucherMap (undefined); if (dueVoucherFile) dueVoucherMap = await
\* ExcelProcessor.parseDueVoucherList(buffer)
dueVoucherMapOf(file) ==
    IF file.kind = "absent" THEN NoMap ELSE parseDueVoucherList(file)

----------------------------------------------------------------------------
(* ExcelProcessor.parseHRComparisonFile, src/src/lib/excel.ts *)

\* One data row (rowNumber > 2) of the "Staff" or "Worker" sheet: the cells
\* the parser reads.  hrMap.set(empCode, ...) of that row
hrEntryOfRow(row) ==
    [ bonus      |-> row.finalRTGS,
      department |-> row.dept,
      grossSal   |-> row.gross,
      gross02    |-> row.gross,
      register   |-> row.register,
      actual     |-> row.finalRTGS,
      unpaid     |-> row.dueVC,
      reim       |-> 0 ]

\* The rows in reading order; rows without an employee code are skipped and
\* a later row of the same code replaces an earlier one
RECURSIVE parseHRRows(_, _)
parseHRRows(rows, hrMap) ==
    IF rows = << >> THEN hrMap
    ELSE LET row == Head(rows)
         IN  parseHRRows(Tail(rows),
                 IF row.empCode = "" THEN hrMap
                 ELSE [k \in DOMAIN hrMap \cup {row.empCode} |->
                          IF k = row.empCode THEN hrEntryOfRow(row) ELSE hrMap[k]])

parseHRComparisonFile(rows) == parseHRRows(rows, NoEntries)

----------------------------------------------------------------------------
(* POST of src/src/app/api/process/route.ts: the comparison, lines 106-171 *)

\* `hrData?.field || 0` for the seven compared fields
hrFieldsOf(hrMap, empId) ==
    IF empId \in DOMAIN hrMap
    THEN LET hrData == hrMap[empId]
         IN  [ grossSal |-> hrData.grossSal, gross02 |-> hrData.gross02,
               register |-> hrData.register, actual |-> hrData.actual,
               unPaid |-> hrData.unpaid, finalRTGS |-> hrData.bonus,
               reim |-> hrData.reim ]
    ELSE [ grossSal |-> 0, gross02 |-> 0, register |-> 0, actual |-> 0,
           unPaid |-> 0, finalRTGS |-> 0, reim |-> 0 ]

systemFieldsOf(calc) ==
    [ grossSal |-> calc.totalGrossSalary, gross02 |-> calc.gross2,
      register |-> calc.register, actual |-> calc.actual,
      unPaid |-> calc.unpaid, finalRTGS |-> calc.finalRTGS, reim |-> calc.reim ]

FieldNames == { "grossSal", "gross02", "register", "actual", "unPaid",
                "finalRTGS", "reim" }

\* allDiffs.every(diff => diff <= 1)
withinMargin(diff) == diff <= 100

processStatusOf(calc, hrMap) ==
    IF calc.empId \notin DOMAIN hrMap THEN "MISSING"
    ELSE LET sys == systemFieldsOf(calc)
             hr  == hrFieldsOf(hrMap, calc.empId)
         IN  IF \A f \in FieldNames : withinMargin(MathAbs(sys[f] - hr[f]))
             THEN "MATCH"
             ELSE "MISMATCH"

processComparisonOf(calc, hrMap) ==
    LET sys == systemFieldsOf(calc)
        hr  == hrFieldsOf(hrMap, calc.empId)
    IN  [ empId       |-> calc.empId,
          hrData      |-> hr,
          systemData  |-> sys,
          differences |-> [f \in FieldNames |-> sys[f] - hr[f]],
          status      |-> processStatusOf(calc, hrMap),
          source      |-> IF calc.empId \in DOMAIN hrMap THEN "both"
                          ELSE "system_only" ]

(* The second POST handler, src/src/app/api/monthly-summary/route.ts
   lines 402-531: the comparison, lines 479-494 *)

calculateStatusOf(difference) ==
    IF MathAbs(difference) < 100 THEN "MATCH" ELSE "MISMATCH"

calculateComparisonOf(calc, hrMap) ==
    LET hrBonus    == IF calc.empId \in DOMAIN hrMap THEN hrMap[calc.empId].bonus
                      ELSE 0
        difference == calc.finalBonus - hrBonus
    IN  [ empId       |-> calc.empId,
          systemBonus |-> calc.finalBonus,
          hrBonus     |-> hrBonus,
          difference  |-> difference,
          status      |-> calculateStatusOf(difference) ]

NullComparison == [isNull |-> TRUE, rows |-> << >>]

----------------------------------------------------------------------------
(* ExcelProcessor: the normalizer, src/src/lib/excel.ts *)

\* The `map` of normalizeMonthKey
monthNameMap ==
    (<< "J", "A", "N" >> :> << "J", "A", "N" >>) @@
    (<< "J", "A", "N", "U", "A", "R", "Y" >> :> << "J", "A", "N" >>) @@
    (<< "F", "E", "B" >> :> << "F", "E", "B" >>) @@
    (<< "F", "E", "B", "R", "U", "A", "R", "Y" >> :> << "F", "E", "B" >>) @@
    (<< "M", "A", "R" >> :> << "M", "A", "R" >>) @@
    (<< "M", "A", "R", "C", "H" >> :> << "M", "A", "R" >>) @@
    (<< "A", "P", "R" >> :> << "A", "P", "R" >>) @@
    (<< "A", "P", "R", "I", "L" >> :> << "A", "P", "R" >>) @@
    (<< "M", "A", "Y" >> :> << "M", "A", "Y" >>) @@
    (<< "J", "U", "N" >> :> << "J", "U", "N" >>) @@
    (<< "J", "U", "N", "E" >> :> << "J", "U", "N" >>) @@
    (<< "J", "U", "L" >> :> << "J", "U", "L" >>) @@
    (<< "J", "U", "L", "Y" >> :> << "J", "U", "L" >>) @@
    (<< "A", "U", "G" >> :> << "A", "U", "G" >>) @@
    (<< "A", "U", "G", "U", "S", "T" >> :> << "A", "U", "G" >>) @@
    (<< "S", "E", "P" >> :> << "S", "E", "P" >>) @@
    (<< "S", "E", "P", "T" >> :> << "S", "E", "P" >>) @@
    (<< "S", "E", "P", "T", "E", "M", "B", "E", "R" >> :> << "S", "E", "P" >>) @@
    (<< "O", "C", "T" >> :> << "O", "C", "T" >>) @@
    (<< "O", "C", "T", "O", "B", "E", "R" >> :> << "O", "C", "T" >>) @@
    (<< "N", "O", "V" >> :> << "N", "O", "V" >>) @@
    (<< "N", "O", "V", "E", "M", "B", "E", "R" >> :> << "N", "O", "V" >>) @@
    (<< "D", "E", "C" >> :> << "D", "E", "C" >>) @@
    (<< "D", "E", "C", "E", "M", "B", "E", "R" >> :> << "D", "E", "C" >>)

Min(a, b) == IF a < b THEN a ELSE b

\* Where the digits start after /^([A-Z]+)\s*[-\/]\s*/, for nMon letters
\* followed by nGap blanks
dashedYearAt(s, nMon, nGap) ==
    nMon + nGap + 2 + RunLen(s, nMon + nGap + 2, { " " })

\* s.match(/^([A-Z]+)\s*[-\/]\s*(\d{2,4})/)
matchesDashed(s, nMon, nGap) ==
    /\ nMon >= 1
    /\ nMon + nGap + 1 <= Len(s)
    /\ s[nMon + nGap + 1] \in { "-", "/" }
    /\ RunLen(s, dashedYearAt(s, nMon, nGap), Digits) >= 2

\* s.match(/^([A-Z]+)\s+(\d{2,4})/)
matchesSpaced(s, nMon, nGap) ==
    /\ nMon >= 1
    /\ nGap >= 1
    /\ RunLen(s, nMon + nGap + 1, Digits) >= 2

\* The group (\d{2,4}) that starts at position at
yearGroup(s, at) == SubSeq(s, at, at + Min(4, RunLen(s, at, Digits)) - 1)

\* map[mon] || mon.slice(0, 3)
shortMonth(mon) ==
    IF mon \in DOMAIN monthNameMap THEN monthNameMap[mon] ELSE Substring0(mon, 3)

\* `${m3}-${yy}` with yy = yr.length === 4 ? yr.slice(2) : yr
monthKeyOf(mon, yr) ==
    StringOf(shortMonth(mon) \o << "-" >>
             \o (IF Len(yr) = 4 THEN SubSeq(yr, 3, 4) ELSE yr))

\* The result for the trimmed upper-case name s that starts with nMon
\* letters followed by nGap blanks
normalizeMatched(s, nMon, nGap) ==
    IF matchesDashed(s, nMon, nGap)
    THEN monthKeyOf(SubSeq(s, 1, nMon), yearGroup(s, dashedYearAt(s, nMon, nGap)))
    ELSE IF matchesSpaced(s, nMon, nGap)
    THEN monthKeyOf(SubSeq(s, 1, nMon), yearGroup(s, nMon + nGap + 1))
    ELSE StringOf(Substring0(s, 6))

\* The two runs that both patterns start with
normalizeUpper(s) ==
    normalizeMatched(s, RunLen(s, 1, UpperLetters),
                     RunLen(s, RunLen(s, 1, UpperLetters) + 1, { " " }))

\* normalizeMonthKey: the leading letters, a separator ("-" or "/" between
\* optional blanks, or blanks alone) and two to four digits
normalizeMonthKey(sheetName) ==
    normalizeUpper(Trim(ToUpperCase(CharsOf(sheetName))))

\* new Date("2020-01-01"), the date given to "N" rows and to unparsable texts
DefaultDoj == DateOf(2020, 1, 1, 0)

\* A joining-date cell: empty, a text, or a date value
EmptyCell == [kind |-> "empty", text |-> "", date |-> InvalidDate]
TextCell(t) == [kind |-> "text", text |-> t, date |-> InvalidDate]
DateCell(d) == [kind |-> "date", text |-> "", date |-> d]

\* new Date(text)
NativeDate(text) ==
    CASE text = "2025-07-15" -> DateOf(2025, 7, 15, 0)
      [] OTHER -> InvalidDate

\* String(dojRaw ?? "").trim().toUpperCase(); the text of a date value is
\* its long form ("Tue Jul 15 2025 ..."), kept as one token
dojTextOf(dojRaw) ==
    CASE dojRaw.kind = "empty" -> << >>
      [] dojRaw.kind = "text" -> ToUpperCase(Trim(CharsOf(dojRaw.text)))
      [] OTHER -> << "TUE JUL 15 2025" >>

\* ExcelProcessor.parseDate, for the cells above
parseDate(dateValue) ==
    LET s == dojTextOf(dateValue)
    IN  IF \/ dateValue.kind = "empty"
           \/ dateValue.kind = "text" /\ dateValue.text = ""
           \/ s \in { CharsOf("N"), CharsOf("NA"), CharsOf("N.A"), CharsOf("N/A") }
        THEN DefaultDoj
        ELSE IF dateValue.kind = "date" THEN dateValue.date
        ELSE IF isValidDOJ(NativeDate(dateValue.text)) THEN NativeDate(dateValue.text)
        ELSE DefaultDoj

isNValueOf(row) ==
    LET empIdUpper == ToUpperCase(CharsOf(row.empId))
    IN  \/ dojTextOf(row.doj) = << "N" >>
        \/ empIdUpper = << "N" >>
        \/ (empIdUpper # << >> /\ Head(empIdUpper) = "N")

\* A not-applicable test that misses the spelling with two dots
isNotApplicableOfThree(row) ==
    dojTextOf(row.doj) \in { CharsOf("NA"), CharsOf("N.A"), CharsOf("N/A"), << >> }

isNotApplicableOf(row) ==
    dojTextOf(row.doj) \in { CharsOf("NA"), CharsOf("N.A"), CharsOf("N.A."),
                             CharsOf("N/A"), << >> }

\* doj of a row that is not skipped for its joining date
dojOf(row) == IF isNValueOf(row) THEN DefaultDoj ELSE parseDate(row.doj)

\* empId === "N" || empId.toUpperCase() === "N" ? `N_${name}` : empId
mapKeyOf(row) ==
    IF ToUpperCase(CharsOf(row.empId)) = << "N" >> THEN "N_" \o row.name
    ELSE row.empId

\* empId === "N" || String(dojRaw).trim().toUpperCase() === "N" ? "N" : dept
monthDeptOf(row, dept) ==
    IF row.empId = "N" \/ dojTextOf(row.doj) = << "N" >> THEN "N" ELSE dept

\* employeeMap: a Map in insertion order
EmptyEmployeeMap == [keys |-> << >>, vals |-> << >>]

KeyIndex(map, key) == CHOOSE i \in DOMAIN map.keys : map.keys[i] = key

EmployeeMapHas(map, key) == \E i \in DOMAIN map.keys : map.keys[i] = key

EmployeeMapSet(map, key, emp) ==
    [keys |-> Append(map.keys, key), vals |-> Append(map.vals, emp)]

\* if (!employeeMap.has(mapKey)) employeeMap.set(mapKey, { ... })
ensureEmployee(map, row, dept) ==
    IF EmployeeMapHas(map, mapKeyOf(row)) THEN map
    ELSE EmployeeMapSet(map, mapKeyOf(row),
             [ empId        |-> row.empId,
               name         |-> row.name,
               department   |-> IF isNValueOf(row) THEN "N" ELSE dept,
               doj          |-> dojOf(row),
               isCashSalary |-> FALSE,
               monthlyData  |-> << >> ])

\* A push that records a month only when there is pay
pushMonthlyDataPaidOnly(monthlyData, row, dept, sheetName) ==
    IF row.salary > 0
    THEN Append(monthlyData, [ month      |-> normalizeMonthKey(sheetName),
                               salary     |-> row.salary,
                               department |-> monthDeptOf(row, dept) ])
    ELSE monthlyData

\* if (isNValue || salary > 0) employee.monthlyData.push({ ... })
pushMonthlyData(monthlyData, row, dept, sheetName) ==
    IF isNValueOf(row) \/ row.salary > 0
    THEN Append(monthlyData, [ month      |-> normalizeMonthKey(sheetName),
                               salary     |-> row.salary,
                               department |-> monthDeptOf(row, dept) ])
    ELSE monthlyData

\* What the callback does to employeeMap.get(mapKey): the cash flag (worker
\* file only), the monthly record, the department
updateEmployee(employee, row, dept, sheetName, worker) ==
    [employee EXCEPT
        !.isCashSalary = IF worker /\ row.cash # "" THEN TRUE ELSE @,
        !.monthlyData  = pushMonthlyData(@, row, dept, sheetName),
        !.department   = monthDeptOf(row, dept)]

\* const employee = employeeMap.get(mapKey)!; then the updates on it
updateAtKey(map, row, dept, sheetName, worker) ==
    [map EXCEPT !.vals[KeyIndex(map, mapKeyOf(row))] =
        updateEmployee(@, row, dept, sheetName, worker)]

\* The body of the eachRow callback once the row is known to be kept: create
\* the employee if the key is new, append the monthly record, set the
\* department
keepRow(map, row, dept, sheetName, worker) ==
    updateAtKey(ensureEmployee(map, row, dept), row, dept, sheetName, worker)

\* The eachRow callback of parseStaffFile (lines 213-330)
staffEachRow(map, row, sheetName) ==
    LET dept == IF row.dept = "" THEN "S" ELSE row.dept
        isN  == isNValueOf(row)
    IN  IF row.rowNumber <= 3 THEN map
        ELSE IF isNotApplicableOf(row) /\ ~isN THEN map
        ELSE IF ~isN /\ ~isValidDOJ(dojOf(row)) THEN map
        ELSE IF \/ row.empId = ""
                \/ row.empId = "0"
                \/ row.name = ""
                \/ ToUpperCase(CharsOf(row.name)) = CharsOf("TOTAL")
             THEN map
        ELSE IF ~isN /\ row.salary = 0 THEN map
        ELSE keepRow(map, row, dept, sheetName, FALSE)

\* The eachRow callback of parseWorkerFile (lines 378-513)
workerEachRow(map, row, sheetName) ==
    LET dept == IF row.dept = "" THEN "W" ELSE row.dept
        isN  == isNValueOf(row)
    IN  IF row.rowNumber <= 2 THEN map
        ELSE IF isNotApplicableOf(row) /\ ~isN THEN map
        ELSE IF ~isN /\ ~isValidDOJ(dojOf(row)) THEN map
        ELSE IF \/ row.empId = ""
                \/ row.empId = "0"
                \/ row.name = ""
                \/ ToUpperCase(CharsOf(row.name)) = CharsOf("TOTAL")
                \/ ToUpperCase(CharsOf(row.empId)) = CharsOf("TOTAL")
             THEN map
        ELSE IF ~isN /\ row.salary <= 0 THEN map
        ELSE keepRow(map, row, dept, sheetName, TRUE)

\* worksheet.eachRow from row i on
RECURSIVE eachRowFrom(_, _, _, _, _)
eachRowFrom(map, rows, i, sheetName, worker) ==
    IF i > Len(rows) THEN map
    ELSE eachRowFrom(IF worker THEN workerEachRow(map, rows[i], sheetName)
                     ELSE staffEachRow(map, rows[i], sheetName),
                     rows, i + 1, sheetName, worker)

\* The sheet filter: the name has a "-" and ends with " O" (staff), " W"
\* (worker)
isCohortSheet(sheetName, worker) ==
    /\ IncludesChar(CharsOf(sheetName), "-")
    /\ EndsWith(CharsOf(sheetName), IF worker THEN << " ", "W" >> ELSE << " ", "O" >>)

\* workbook.worksheets.forEach from sheet j on
RECURSIVE eachSheetFrom(_, _, _, _)
eachSheetFrom(map, sheets, j, worker) ==
    IF j > Len(sheets) THEN map
    ELSE eachSheetFrom(IF isCohortSheet(sheets[j].name, worker)
                       THEN eachRowFrom(map, sheets[j].rows, 1, sheets[j].name, worker)
                       ELSE map,
                       sheets, j + 1, worker)

\* An uploaded file: a workbook of sheets, an empty buffer, or bytes that
\* workbook.xlsx.load rejects
Workbook(sheets) == [kind |-> "workbook", sheets |-> sheets]
EmptyBuffer == [kind |-> "empty", sheets |-> << >>]
CorruptFile == [kind |-> "corrupt", sheets |-> << >>]
NoFile == [kind |-> "absent", sheets |-> << >>]

\* parseStaffFile(...).employees: the empty buffer and the caught load
\* error both return { employees: [], summary: null }
parseStaffFile(file) ==
    IF file.kind # "workbook" THEN << >>
    ELSE eachSheetFrom(EmptyEmployeeMap, file.sheets, 1, FALSE).vals

\* parseWorkerFile(...).employees
parseWorkerFile(file) ==
    IF file.kind # "workbook" THEN << >>
    ELSE eachSheetFrom(EmptyEmployeeMap, file.sheets, 1, TRUE).vals

----------------------------------------------------------------------------
(* ExcelProcessor: the regrouping of the report, src/src/lib/excel.ts *)

\* A copy that keeps the records and the gross total of every department
recalculateForDepartmentUnfiltered(calc, dept) ==
    [calc EXCEPT !.department = dept]

\* recalculateForDepartment: the records of the department, their sum
recalculateForDepartment(calc, dept) ==
    LET deptMonthlyData == SelectSeq(calc.monthlyData,
                                     LAMBDA md : md.department = dept)
        deptGrossSalary == SumSeq([i \in 1..Len(deptMonthlyData) |->
                                      deptMonthlyData[i].salary])
    IN  [calc EXCEPT !.department = dept,
                     !.monthlyData = deptMonthlyData,
                     !.totalGrossSalary = MathRound(deptGrossSalary)]

\* departments[dept].push(recalculateForDepartment(calc, dept)), creating
\* the group when it is new
pushDepartment(departments, calc, dept) ==
    IF dept \in DOMAIN departments
    THEN [departments EXCEPT ![dept] =
              Append(@, recalculateForDepartment(calc, dept))]
    ELSE departments @@ (dept :> << recalculateForDepartment(calc, dept) >>)

\* employeeDepts.forEach(...)
RECURSIVE pushEach(_, _, _)
pushEach(departments, calc, depts) ==
    IF depts = { } THEN departments
    ELSE LET dept == CHOOSE d \in depts : TRUE
         IN  pushEach(pushDepartment(departments, calc, dept), calc,
                      depts \ { dept })

\* The forEach callback of groupByDepartments
groupOne(departments, calc) ==
    LET fallback == IF calc.department = "" THEN "N" ELSE calc.department
        employeeDepts == { calc.monthlyData[i].department :
                              i \in DOMAIN calc.monthlyData } \ { "" }
    IN  IF calc.department = "N" \/ calc.empId = "N"
        THEN pushDepartment(departments, calc, "N")
        ELSE IF Len(calc.monthlyData) = 0
        THEN pushDepartment(departments, calc, fallback)
        ELSE IF employeeDepts = { }
        THEN pushDepartment(departments, calc, fallback)
        ELSE pushEach(departments, calc, employeeDepts)

RECURSIVE groupFrom(_, _, _)
groupFrom(departments, calculations, i) ==
    IF i > Len(calculations) THEN departments
    ELSE groupFrom(groupOne(departments, calculations[i]), calculations, i + 1)

\* groupByDepartments: a Record<string, BonusCalculation[]>
groupByDepartments(calculations) == groupFrom(<< >>, calculations, 1)

----------------------------------------------------------------------------
(* ExcelProcessor.generateStaffSheet and generateWorkerSheet: the cells of *)
(* one row and what a spreadsheet evaluates their formulas to,             *)
(* src/src/lib/excel.ts.  A cell value is blank, a number (in hundredths), *)
(* a text or the error #VALUE!.  ROUND of the sheet rounds half away from  *)
(* zero, which on the non-negative amounts it is applied to is Math.round. *)

BlankValue == [kind |-> "blank", v |-> 0, text |-> ""]
NumberValue(v) == [kind |-> "number", v |-> v, text |-> ""]
TextValue(s) == [kind |-> "text", v |-> 0, text |-> s]
ErrorValue == [kind |-> "error", v |-> 0, text |-> "#VALUE!"]

\* The number an arithmetic operator reads in a cell that is not a text
\* and not an error: a blank cell counts as 0
NumberIn(cell) == IF cell.kind = "number" THEN cell.v ELSE 0

\* Whether an arithmetic operator fails on the cell: on a text, the empty
\* one included, and on an error
NotArithmetic(cell) == cell.kind \in { "text", "error" }

\* isStaff of generateFinalBonusExcel: the groups that get a staff sheet
isStaffSheet(dept) ==
    \/ dept = "S"
    \/ dept = "N"
    \/ dept = "Sci Prec-"
    \/ dept = "NRTM"
    \/ dept = "Sci Prec Life.-"

\* The months of the columns E to O
monthOrder ==
    << "NOV-24", "DEC-24", "JAN-25", "FEB-25", "MAR-25", "APR-25", "MAY-25",
       "JUN-25", "JUL-25", "AUG-25", "SEP-25" >>

\* (md.month || "").slice(0, 6).toUpperCase()
sheetMonthKey(md) == StringOf(ToUpperCase(Substring0(CharsOf(md.month), 6)))

\* monthToSalary.get(m): the rounded salary of the first record of the key
\* with a salary above 0, null without one
monthCell(monthlyData, m) ==
    LET hits == SelectSeq(monthlyData,
                          LAMBDA md : sheetMonthKey(md) = m /\ md.salary > 0)
    IN  IF hits = << >> THEN BlankValue
        ELSE NumberValue(MathRound(MathRound(hits[1].salary)))

\* The cells E to O of the row
monthCells(calc) == [i \in 1..11 |-> monthCell(calc.monthlyData, monthOrder[i])]

\* The numbers above 0 among cells
PositiveNumbers(cells) ==
    LET hits == SelectSeq(cells, LAMBDA c : c.kind = "number" /\ c.v > 0)
    IN  [i \in 1..Len(hits) |-> hits[i].v]

\* Column P: IF(N=0, "", IF(COUNTBLANK(E:O)=11, "",
\* ROUND(AVERAGEIF(E:O,">0"),0))), N being the cell of AUG-25; it replaces
\* the value written to column P for OCT-25
salary12Cell(cells) ==
    IF NumberIn(cells[10]) = 0 THEN TextValue("")
    ELSE IF \A i \in 1..11 : cells[i].kind = "blank" THEN TextValue("")
    ELSE NumberValue(RoundRatio(SumSeq(PositiveNumbers(cells)),
                                Len(PositiveNumbers(cells))))

\* Column Q: ROUND(SUM(E:P),0); SUM passes over blanks and texts
grossSalaryCell(cells) ==
    NumberValue(MathRound(SumSeq([i \in 1..11 |-> NumberIn(cells[i])])
                          + NumberIn(salary12Cell(cells))))

\* calc.bonusPercent || 0
percentageCell(calc) == NumberValue(calc.bonusPercent)

\* Staff column R: IF(X=8.33, Q, IF(X>8.33, Q*0.6, ""))
gross2Cell(calc) ==
    IF percentageCell(calc).v = 833 THEN grossSalaryCell(monthCells(calc))
    ELSE IF percentageCell(calc).v > 833
    THEN NumberValue((grossSalaryCell(monthCells(calc)).v * 6) \div 10)
    ELSE TextValue("")

\* calc.bonusPercent || 8.33
percentValue(calc) == IF calc.bonusPercent = 0 THEN 833 ELSE calc.bonusPercent

\* Staff column S: ROUND(R*percentValue%, 0)
staffRegisterCell(calc) ==
    IF NotArithmetic(gross2Cell(calc)) THEN ErrorValue
    ELSE NumberValue(RoundPercent(NumberIn(gross2Cell(calc)), percentValue(calc)))

\* Worker column R: 0 for a cash salary, otherwise ROUND(Q*8.33%, 0)
workerRegisterCell(calc) ==
    IF calc.isCashSalary THEN NumberValue(0)
    ELSE NumberValue(RoundPercent(grossSalaryCell(monthCells(calc)).v, 833))

\* calc.alreadyPaid || 0, calc.unpaid || 0, calc.loan || 0
alreadyPaidCell(calc) == NumberValue(calc.alreadyPaid)
unpaidCell(calc) == NumberValue(calc.unpaid)
loanCell(calc) == NumberValue(calc.loan)

\* register - (alreadyPaid + unpaid) over cells
lessDueVouchers(registerCell, calc) ==
    IF NotArithmetic(registerCell) THEN ErrorValue
    ELSE NumberValue(registerCell.v
                     - (alreadyPaidCell(calc).v + unpaidCell(calc).v))

\* Staff column Y, the actual amount: S-(T+U)
staffActualCell(calc) == lessDueVouchers(staffRegisterCell(calc), calc)

\* Worker column U: calc.isEligible ? "Yes" : "No"
eligibleCell(calc) == TextValue(IF calc.isEligible THEN "Yes" ELSE "No")

\* Worker column V, the amount after vouchers: R-(S+T)
workerAfterVCell(calc) == lessDueVouchers(workerRegisterCell(calc), calc)

\* Worker column X, the actual amount: IF(U="Yes", V, 0)
workerActualCell(calc) ==
    IF eligibleCell(calc).text = "Yes" THEN workerAfterVCell(calc)
    ELSE NumberValue(0)

\* actual - loan over cells
lessLoan(actualCell, calc) ==
    IF NotArithmetic(actualCell) THEN ErrorValue
    ELSE NumberValue(actualCell.v - loanCell(calc).v)

\* Staff column AB: Y-AA
staffFinalRTGSCell(calc) == lessLoan(staffActualCell(calc), calc)

\* Worker column AA: X-Z
workerFinalRTGSCell(calc) == lessLoan(workerActualCell(calc), calc)

\* The Register cell of the row a group's sheet has for the computation
registerCellOf(calc, dept) ==
    IF isStaffSheet(dept) THEN staffRegisterCell(calc) ELSE workerRegisterCell(calc)

\* The Final RTGS cell of the row a group's sheet has for the computation
finalRTGSCellOf(calc, dept) ==
    IF isStaffSheet(dept) THEN staffFinalRTGSCell(calc)
    ELSE workerFinalRTGSCell(calc)

----------------------------------------------------------------------------
(* The inputs of a request *)

\* The most monthly records one employee of the salary inputs carries
MaxRecords == 2

\* The sequences over S of 1 to n elements: the parsers create an employee
\* together with the first monthly record
SeqsUpTo(S, n) == UNION { [1..k -> S] : k \in 1..n }

EmployeeOf(id, dept, doj, cash, monthlyData) ==
    [ empId |-> id, name |-> "Asha", department |-> dept, doj |-> doj,
      isCashSalary |-> cash, monthlyData |-> monthlyData ]

\* Clock values around which the service tiers change
NowEarly == DateOf(2025, 11, 3, 5)
NowLate  == DateOf(2025, 11, 3, 10)

DojPlaceholder == DateOf(2020, 1, 1, 0)   \* also the parsers' date for "N" rows
DojRecent      == DateOf(2025, 7, 15, 0)  \* 4 calendar months before
DojHalfYear    == DateOf(2025, 1, 10, 0)  \* 10 calendar months before
DojLastYear    == DateOf(2024, 6, 1, 0)   \* between one and two years
DojYearAgo     == DateOf(2024, 11, 3, 0)  \* one year of 365.25 days ends at 06:00

\* Salary inputs: whole and fractional amounts
SalaryRecords(dept) ==
    { [month |-> mo, salary |-> sal, department |-> dept] :
        mo \in { "NOV-24", "AUG-25" }, sal \in { 251100, 250 } }

\* A ledger row; the first row of a sheet is its header
LedgerRow(code, dept, category, amount) ==
    [empCode |-> code, dept |-> dept, category |-> category, dueVC |-> amount]

LedgerHeader == LedgerRow("7", "DEPT", "A", 99900)

\* No upload, half a unit already paid, or 100 already paid and 40 unpaid
DueVoucherChoices(id) ==
    { NoLedger,
      Ledger(<< LedgerHeader, LedgerRow(id, "W", "A", 50) >>),
      Ledger(<< LedgerHeader, LedgerRow(id, "W", "A", 10000),
                LedgerRow(id, "W", "U", 4000) >>) }

LoanChoices(id) == { NoMap, MapOf(id :> 50000) }

PercentChoices(id) ==
    { NoMap, MapOf(id :> 500), MapOf(id :> 833), MapOf(id :> 1500) }

\* The distinct months of a timeline, in order of first occurrence
RECURSIVE DistinctMonths(_)
DistinctMonths(md) ==
    IF md = << >> THEN << >>
    ELSE << md[1].month >> \o
         DistinctMonths(SelectSeq(Tail(md), LAMBDA r : r.month # md[1].month))

\* A workbook whose sheets carry, for one employee, the rows that make the
\* timeline md: one sheet per month, one row per record, below the header
SheetsOf(id, dept, dojCell, cash, md, worker) ==
    LET months == DistinctMonths(md)
    IN  [j \in 1..Len(months) |->
            LET recs == SelectSeq(md, LAMBDA r : r.month = months[j])
            IN  [ name |-> months[j] \o (IF worker THEN " W" ELSE " O"),
                  rows |-> [i \in 1..Len(recs) |->
                              [ rowNumber |-> i + (IF worker THEN 2 ELSE 3),
                                empId     |-> id,
                                dept      |-> recs[i].department,
                                name      |-> "Asha",
                                salary    |-> recs[i].salary,
                                doj       |-> dojCell,
                                cash      |-> IF cash THEN "Y" ELSE "" ]] ]]

\* The two uploads of a request about one employee: the worker file carries
\* the worker departments and the cash-salary column
Uploaded(id, dept, dojCell, cash, md) ==
    LET worker == cash \/ dept \in { "W", "M", "A", "C" }
    IN  /\ staffFile = Workbook(IF worker THEN << >>
                                ELSE SheetsOf(id, dept, dojCell, cash, md, FALSE))
        /\ workerFile = Workbook(IF worker
                                 THEN SheetsOf(id, dept, dojCell, cash, md, TRUE)
                                 ELSE << >>)

NoReport == [status |-> "none", departments |-> << >>]

NotYetRun ==
    /\ employees = << >>
    /\ dueVoucherMap = NoMap
    /\ report = NoReport
    /\ bonusCalculations = << >>
    /\ hrBonusMap = NoEntries
    /\ comparisonResults = NullComparison
    /\ pc = "request"

\* Requests that vary the amounts: salaries, vouchers, loan, override
InitAmounts ==
    /\ \E id \in { "143", "7" }, dept \in { "W", "Sci Prec-" },
          doj \in { DojRecent, DojPlaceholder }, cash \in BOOLEAN :
          /\ \E md \in SeqsUpTo(SalaryRecords(dept), MaxRecords) :
                Uploaded(id, dept, DateCell(doj), cash, md)
          /\ dueVoucherFile \in DueVoucherChoices(id)
          /\ loanMap \in LoanChoices(id)
          /\ percentageMap \in PercentChoices(id)
    /\ hrComparisonFile = "none"
    /\ clockReads = << NowLate, NowLate >>
    /\ NotYetRun

AllDepartments == { "W", "M", "A", "C", "S", "NRTM", "Sci Prec-", "N" }

\* Requests that vary what the percentage resolution reads
InitPercent ==
    /\ \E id \in { "143", "914", "7" }, dept \in AllDepartments,
          doj \in { DateCell(DojPlaceholder), DateCell(DojRecent),
                    DateCell(DojHalfYear), DateCell(DojLastYear),
                    DateCell(DojYearAgo), TextCell("soon") } :
          /\ Uploaded(id, dept, doj, FALSE,
                      << [month |-> "NOV-24", salary |-> 251100,
                          department |-> dept] >>)
          /\ percentageMap \in { NoMap, MapOf(id :> 1500), MapOf(id :> 1200),
                                 MapOf("7" :> 1500) }
    /\ dueVoucherFile = NoLedger
    /\ loanMap = NoMap
    /\ hrComparisonFile = "none"
    /\ clockReads \in { << NowEarly, NowEarly >>, << NowEarly, NowLate >>,
                        << NowLate, NowLate >> }
    /\ NotYetRun

\* Timelines around the thresholds of the 12th-month estimate: no pay,
\* half a unit, exactly 1, 2.5 and 50,000, in a month before the averaged
\* range, at its start and at its end
TimelineRecords(dept) ==
    { [month |-> mo, salary |-> sal, department |-> dept] :
        mo \in { "NOV-24", "DEC-24", "AUG-25" },
        sal \in { 0, 50, 100, 250, 5000000 } }

\* Requests that vary the monthly timeline
InitSalaries ==
    /\ \E dept \in { "S", "W", "Sci Prec-" }, doj \in { DojRecent, DojPlaceholder } :
          \E md \in SeqsUpTo(TimelineRecords(dept), MaxRecords) :
             Uploaded("7", dept, DateCell(doj), FALSE, md)
    /\ dueVoucherFile = NoLedger
    /\ loanMap = NoMap
    /\ percentageMap \in { NoMap, MapOf("7" :> 1500) }
    /\ hrComparisonFile = "none"
    /\ clockReads = << NowLate, NowLate >>
    /\ NotYetRun

\* Rows around the rules of the normalizers: sentinel ids and joining
\* dates, the not-applicable texts, an unparsable text, missing id or name,
\* a total line, no pay, a negative amount
RowChoices(rowNumber) ==
    { [ rowNumber |-> rowNumber, empId |-> id, dept |-> "S", name |-> name,
        salary |-> sal, doj |-> doj, cash |-> "" ] :
        id \in { "N", "N12", "7", "", "0", "total" },
        name \in { "Asha", "", "Total" },
        sal \in { -100, 0, 251100 },
        doj \in { TextCell("N"), TextCell("NA"), TextCell("N.A"), TextCell("N.A."),
                  TextCell("N/A"), TextCell("n/a"), EmptyCell,
                  DateCell(DojRecent), TextCell("soon") } }

\* Rows of employees that are kept, met before the row of interest
EarlierRows(rowNumber) ==
    { [ rowNumber |-> rowNumber, empId |-> id, dept |-> "W", name |-> "Ravi",
        salary |-> 250, doj |-> DateCell(DojHalfYear), cash |-> "" ] :
        id \in { "7", "N12" } }

\* Workbooks of one cohort: one row on the last header line or below it,
\* or an earlier row followed by a row in the same or in the next sheet
BookChoices(worker) ==
    LET sfx == IF worker THEN " W" ELSE " O"
        top == IF worker THEN 3 ELSE 4
    IN  { Workbook(<< [name |-> "NOV-24" \o sfx, rows |-> << r >>] >>) :
             r \in RowChoices(top - 1) \cup RowChoices(top) }
        \cup { Workbook(<< [name |-> "NOV-24" \o sfx, rows |-> << e, r >>] >>) :
                  e \in EarlierRows(top), r \in RowChoices(top + 1) }
        \cup { Workbook(<< [name |-> "NOV-24" \o sfx, rows |-> << e >>],
                           [name |-> "DEC-24" \o sfx, rows |-> << r >>] >>) :
                  e \in EarlierRows(top), r \in RowChoices(top) }

\* A workbook of one kept employee
PlainBook(worker) ==
    Workbook(<< [ name |-> IF worker THEN "AUG-25 W" ELSE "AUG-25 O",
                  rows |-> << [ rowNumber |-> 4, empId |-> "143", dept |-> "",
                                name |-> "Ravi", salary |-> 251100,
                                doj |-> DateCell(DojLastYear),
                                cash |-> "" ] >> ] >>)

\* Requests that vary the two uploads: the rows of one cohort, or a file
\* that is missing, empty or not a workbook
InitNormalize ==
    /\ \/ staffFile \in BookChoices(FALSE) /\ workerFile = Workbook(<< >>)
       \/ staffFile = Workbook(<< >>) /\ workerFile \in BookChoices(TRUE)
       \/ /\ staffFile \in { CorruptFile, EmptyBuffer, NoFile, PlainBook(FALSE) }
          /\ workerFile \in { CorruptFile, EmptyBuffer, NoFile, PlainBook(TRUE) }
    /\ dueVoucherFile = NoLedger
    /\ loanMap = NoMap
    /\ percentageMap = NoMap
    /\ hrComparisonFile = "none"
    /\ clockReads = << NowLate, NowLate >>
    /\ NotYetRun

\* A clock value in the next calendar month
NowNextMonth == DateOf(2025, 12, 1, 0)

\* Clock values four successive reads may return: time does not go back
ClockRuns ==
    { r \in [1..4 -> { NowEarly, NowLate, NowNextMonth }] :
         \A i \in 1..3 : GetTimeHours(r[i]) <= GetTimeHours(r[i + 1]) }

\* Requests with two staff employees who differ in their id only, computed
\* while the clock runs
InitClock ==
    /\ \E dept \in { "Sci Prec-", "W", "S" },
          doj \in { DojPlaceholder, DojRecent, DojHalfYear, DojLastYear, DojYearAgo } :
          /\ staffFile =
                Workbook(<< [ name |-> "NOV-24 O",
                              rows |-> [i \in 1..2 |->
                                  [ rowNumber |-> i + 3,
                                    empId     |-> IF i = 1 THEN "7" ELSE "999",
                                    dept      |-> dept,
                                    name      |-> "Asha",
                                    salary    |-> 251100,
                                    doj       |-> DateCell(doj),
                                    cash      |-> "" ]] ] >>)
          /\ workerFile = Workbook(<< >>)
    /\ dueVoucherFile = NoLedger
    /\ loanMap = NoMap
    /\ percentageMap = NoMap
    /\ hrComparisonFile = "none"
    /\ clockReads \in ClockRuns
    /\ NotYetRun

\* Employee lists handed to calculateBonus directly: joining dates that are
\* a date, an invalid Date, null, undefined, or a text that is not a date
DirectEmployees ==
    { EmployeeOf(id, "Sci Prec-", doj, FALSE,
                 << [month |-> "NOV-24", salary |-> 251100,
                     department |-> "Sci Prec-"] >>) :
        id \in { "7", "143" },
        doj \in { DojRecent, InvalidDate, NullDoj, UndefinedDoj, UnparsableDoj } }

\* Direct calls of calculateBonus, next to requests without employees
InitFilter ==
    /\ employees \in SeqsUpTo(DirectEmployees, 2)
    /\ staffFile = Workbook(<< >>)
    /\ workerFile = Workbook(<< >>)
    /\ dueVoucherFile = NoLedger
    /\ loanMap = NoMap
    /\ percentageMap = NoMap
    /\ hrComparisonFile = "none"
    /\ clockReads = << NowLate, NowLate >>
    /\ dueVoucherMap = NoMap
    /\ report = NoReport
    /\ bonusCalculations = << >>
    /\ hrBonusMap = NoEntries
    /\ comparisonResults = NullComparison
    /\ pc = "request"

\* Ledger rows: amounts already paid and unpaid, whole, fractional and
\* negative, a category in lower case and a code with a blank, another
\* category, no category, no code, no amount
LedgerRows ==
    { LedgerRow("7", "W", "A", 50), LedgerRow("7", "M", "U", 4000),
      LedgerRow(" 7", "W", "u", -2500), LedgerRow("143", "W", "A", 50),
      LedgerRow("143", "W", "X", 50), LedgerRow("7", "W", "A", 0),
      LedgerRow("7", "W", "", 50), LedgerRow("", "W", "A", 50) }

MaxLedgerRows == 3

\* Requests that vary the due-voucher upload
InitLedger ==
    /\ Uploaded("7", "Sci Prec-", DateCell(DojRecent), FALSE,
                << [month |-> "NOV-24", salary |-> 251100,
                    department |-> "Sci Prec-"] >>)
    /\ dueVoucherFile \in
          { NoLedger, LedgerWithoutSheet, CorruptLedger, Ledger(<< >>) }
          \cup { Ledger(<< LedgerHeader >> \o rows) :
                    rows \in SeqsUpTo(LedgerRows, MaxLedgerRows) }
    /\ loanMap = NoMap
    /\ percentageMap = NoMap
    /\ hrComparisonFile = "none"
    /\ clockReads = << NowLate, NowLate >>
    /\ NotYetRun

\* An employee of "N" rows, which are kept with a salary of 0
SentinelEmployee ==
    EmployeeOf("N", "N", DojPlaceholder, FALSE,
               << [month |-> "NOV-24", salary |-> 0, department |-> "N"] >>)

\* Requests that vary what the reconciliation reads
InitRecon ==
    /\ \E id \in { "7", "N" } :
          /\ IF id = "N"
             THEN Uploaded("N", "S", TextCell("N"), FALSE,
                           SentinelEmployee.monthlyData)
             ELSE \E dept \in { "W", "Sci Prec-" },
                     doj \in { DojRecent, DojPlaceholder } :
                     \E md \in SeqsUpTo(SalaryRecords(dept), 1) :
                        Uploaded("7", dept, DateCell(doj), FALSE, md)
          /\ dueVoucherFile \in DueVoucherChoices(id)
          /\ percentageMap \in { NoMap, MapOf(id :> 1500) }
    /\ loanMap = NoMap
    /\ hrComparisonFile \in { "none", "given" }
    /\ clockReads = << NowLate, NowLate >>
    /\ NotYetRun

----------------------------------------------------------------------------
(* The HR comparison workbook, read after the calculation *)

HRDeltas == { 0 - 200, 0 - 150, 0 - 100, 0, 100, 150, 200 }

\* The differences a workbook row has from the computed values: the same
\* on every cell, or on one cell only
HRShifts ==
    { [gross |-> d, register |-> d, dueVC |-> d, finalRTGS |-> d] : d \in HRDeltas }
    \cup { [gross |-> d, register |-> 0, dueVC |-> 0, finalRTGS |-> 0] : d \in HRDeltas }
    \cup { [gross |-> 0, register |-> d, dueVC |-> 0, finalRTGS |-> 0] : d \in HRDeltas }
    \cup { [gross |-> 0, register |-> 0, dueVC |-> d, finalRTGS |-> 0] : d \in HRDeltas }
    \cup { [gross |-> 0, register |-> 0, dueVC |-> 0, finalRTGS |-> d] : d \in HRDeltas }

HRRowNear(calc, shift) ==
    [ empCode   |-> calc.empId,
      dept      |-> calc.department,
      gross     |-> calc.totalGrossSalary - shift.gross,
      register  |-> calc.register - shift.register,
      dueVC     |-> calc.unpaid - shift.dueVC,
      finalRTGS |-> calc.finalRTGS - shift.finalRTGS ]

HRRowZero(code) ==
    [ empCode |-> code, dept |-> "S", gross |-> 0, register |-> 0, dueVC |-> 0,
      finalRTGS |-> 0 ]

NoNegativeCell(row) ==
    row.gross >= 0 /\ row.register >= 0 /\ row.dueVC >= 0 /\ row.finalRTGS >= 0

\* The workbooks a request may carry: empty, a row of another employee, a
\* row without a code, an all-zero row, or a row near the computed values
HRFileChoices(calcs) ==
    { << >>, << HRRowZero("999") >>, << HRRowZero("") >> }
    \cup { << HRRowZero(calcs[i].empId) >> : i \in DOMAIN calcs }
    \cup { << row >> : row \in { r \in { HRRowNear(calcs[i], sh) :
                                            i \in DOMAIN calcs, sh \in HRShifts } :
                                   NoNegativeCell(r) } }

----------------------------------------------------------------------------
(* The request handlers *)

\* What both handlers do after the files are read: parse, calculate and,
\* when an HR workbook came with the request, compare (on the final bonus
\* alone in the second handler)
Handled(dvMap, lnMap, pctMap, oneField) ==
    LET allEmployees == parseStaffFile(staffFile) \o parseWorkerFile(workerFile)
        calcs == calculateBonus(allEmployees, dvMap, lnMap, pctMap, clockReads)
    IN  /\ employees' = allEmployees
        /\ bonusCalculations' = calcs
        /\ IF hrComparisonFile = "given"
           THEN \E rows \in HRFileChoices(calcs) :
                   LET hrMap == parseHRComparisonFile(rows)
                   IN  /\ hrBonusMap' = hrMap
                       /\ comparisonResults' =
                             [ isNull |-> FALSE,
                               rows |-> [i \in DOMAIN calcs |->
                                           IF oneField
                                           THEN calculateComparisonOf(calcs[i], hrMap)
                                           ELSE processComparisonOf(calcs[i], hrMap)] ]
           ELSE /\ hrBonusMap' = NoEntries
                /\ comparisonResults' = NullComparison

\* `if (!staffFile || !workerFile)`: status 400
MissingFiles == staffFile.kind = "absent" \/ workerFile.kind = "absent"

BadRequest ==
    /\ pc' = "bad_request"
    /\ UNCHANGED << employees, dueVoucherMap, bonusCalculations, hrBonusMap,
                    comparisonResults >>

\* POST /api/process
ProcessPOST ==
    /\ pc = "request"
    /\ IF MissingFiles THEN BadRequest
       ELSE /\ dueVoucherMap' = dueVoucherMapOf(dueVoucherFile)
            /\ Handled(dueVoucherMapOf(dueVoucherFile), loanMap, percentageMap, FALSE)
            /\ pc' = "process_done"
    /\ UNCHANGED << staffFile, workerFile, dueVoucherFile, loanMap,
                    percentageMap, hrComparisonFile, clockReads, report >>

\* The second POST handler: calculateBonus(allEmployees) without lookup maps
CalculatePOST ==
    /\ pc = "request"
    /\ IF MissingFiles THEN BadRequest
       ELSE /\ Handled(NoMap, NoMap, NoMap, TRUE)
            /\ pc' = "calculate_done"
            /\ UNCHANGED dueVoucherMap
    /\ UNCHANGED << staffFile, workerFile, dueVoucherFile, loanMap,
                    percentageMap, hrComparisonFile, clockReads, report >>

\* POST /api/generate with the calculations of the response; the JSON
\* round trip keeps the strings and numbers the regrouping reads
GeneratePOST ==
    /\ pc \in { "process_done", "calculate_done" }
    /\ report.status = "none"
    /\ report' = IF Len(bonusCalculations) = 0
                 THEN [status |-> "bad_request", departments |-> << >>]
                 ELSE [status |-> "ok",
                       departments |-> groupByDepartments(bonusCalculations)]
    /\ UNCHANGED << staffFile, workerFile, employees, dueVoucherFile,
                    dueVoucherMap, loanMap,
                    percentageMap, hrComparisonFile, clockReads,
                    bonusCalculations, hrBonusMap, comparisonResults, pc >>

\* BonusCalculator.calculateBonus(employees), called on a list that did not
\* come from the normalizers; it returns or throws
CalculateBonusCall ==
    /\ pc = "request"
    /\ IF calculateBonusThrows(employees)
       THEN /\ pc' = "threw"
            /\ UNCHANGED bonusCalculations
       ELSE /\ bonusCalculations' =
                  calculateBonus(employees, NoMap, NoMap, NoMap, clockReads)
            /\ pc' = "called"
    /\ UNCHANGED << staffFile, workerFile, employees, dueVoucherFile,
                    dueVoucherMap, loanMap,
                    percentageMap, hrComparisonFile, clockReads, hrBonusMap,
                    comparisonResults, report >>

Next == ProcessPOST \/ CalculatePOST \/ GeneratePOST \/ CalculateBonusCall

SpecAmounts == InitAmounts /\ [][Next]_vars

SpecPercent == InitPercent /\ [][Next]_vars

SpecRecon == InitRecon /\ [][Next]_vars

SpecSalaries == InitSalaries /\ [][Next]_vars

SpecNormalize == InitNormalize /\ [][Next]_vars

SpecClock == InitClock /\ [][Next]_vars

SpecFilter == InitFilter /\ [][Next]_vars

SpecLedger == InitLedger /\ [][Next]_vars

----------------------------------------------------------------------------
(* What the claims read *)

Done == pc # "request"

\* The lookup maps the handler that ran handed to calculateBonus
DueVouchersUsed == IF pc = "process_done" THEN dueVoucherMap ELSE NoMap
LoansUsed       == IF pc = "process_done" THEN loanMap ELSE NoMap
PercentagesUsed == IF pc = "process_done" THEN percentageMap ELSE NoMap

\* The employee the k-th computation was made from
EmployeeAt(k) == safeEmployeesOf(employees)[k]

\* The unrounded constants of the k-th pass
LocalsAt(k) ==
    bonusLocals(EmployeeAt(k), DueVouchersUsed, LoansUsed, PercentagesUsed,
                ReadAt(clockReads, 2 * k - 1), ReadAt(clockReads, 2 * k))

\* The unrounded gross total of an employee, from the monthly records
RawGrossOf(emp) ==
    LET slots == extractMonthlySalaries(emp.monthlyData)
    IN  totalGrossOf(slots, calculateOctSalary(slots))

Computed == IF Done THEN DOMAIN bonusCalculations ELSE { }

----------------------------------------------------------------------------
(* C1 *)

\* C1, as claimed: the emitted gross2 is exactly totalGrossSalary at 8.33%,
\* exactly 0.6 x totalGrossSalary above 8.33% and 0 below.
C1_Claimed ==
    \A k \in Computed :
        LET c == bonusCalculations[k]
        IN  /\ c.bonusPercent = 833 => c.gross2 = c.totalGrossSalary
            /\ c.bonusPercent > 833 => 10 * c.gross2 = 6 * c.totalGrossSalary
            /\ c.bonusPercent < 833 => c.gross2 = 0

\* C1, amended: the emitted gross2 is the emitted totalGrossSalary at 8.33%,
\* 0.6 x the unrounded gross total rounded to the nearest whole unit above
\* 8.33%, and 0 below.
C1_Gross2 ==
    \A k \in Computed :
        LET c == bonusCalculations[k]
            t == RawGrossOf(EmployeeAt(k))
        IN  /\ c.totalGrossSalary = MathRound(t)
            /\ c.bonusPercent = 833 => c.gross2 = c.totalGrossSalary
            /\ c.bonusPercent > 833 => c.gross2 = MathRound((6 * t) \div 10)
            /\ c.bonusPercent < 833 => c.gross2 = 0

\* A computed employee above 8.33% whose 60% basis is not a whole number
C1_Witness ==
    \E k \in Computed :
        LET c == bonusCalculations[k]
        IN  /\ c.bonusPercent > 833
            /\ c.gross2 > 0
            /\ 10 * c.gross2 # 6 * c.totalGrossSalary

----------------------------------------------------------------------------
(* C2 *)

\* Employees to compare a computed one with: one salary record, any of the
\* three outcomes of the percentage resolution
TwinEmployees ==
    { EmployeeOf("7", "Sci Prec-", DojPlaceholder, FALSE,
                 << [month |-> "NOV-24", salary |-> sal,
                     department |-> "Sci Prec-"] >>) :
        sal \in { 150660, 150700, 251100, 150, 250 } }

TwinPercentages == { NoMap, MapOf("7" :> 1500), MapOf("7" :> 1200) }

TwinLocals(emp, pctMap) ==
    bonusLocals(emp, NoMap, NoMap, pctMap, NowLate, NowLate)

----------------------------------------------------------------------------
(* C3 *)

\* C3: a cash-salaried employee has register 0, alreadyPaid 0 and unpaid 0
C3_CashSalaryZero ==
    \A k \in Computed :
        LET c == bonusCalculations[k]
        IN  c.isCashSalary => c.register = 0 /\ c.alreadyPaid = 0 /\ c.unpaid = 0

\* A cash-salaried employee with salaries and with a due-voucher entry that
\* the handler handed to the calculator
C3_Witness ==
    \E k \in Computed :
        LET c == bonusCalculations[k]
        IN  /\ c.isCashSalary
            /\ c.totalGrossSalary > 0
            /\ MapHas(DueVouchersUsed, c.empId)
            /\ DueVouchersUsed.entries[c.empId].alreadyPaid > 0

----------------------------------------------------------------------------
(* C4 *)

\* C4: actual is afterV for an eligible employee and 0 otherwise, and reim is
\* afterV - actual
C4_ActualReim ==
    \A k \in Computed :
        LET c == bonusCalculations[k]
        IN  /\ c.actual = (IF c.isEligible THEN c.afterV ELSE 0)
            /\ c.reim = c.afterV - c.actual
            /\ c.actual + c.reim = c.afterV
            /\ c.isEligible => c.reim = 0
            /\ ~c.isEligible => c.actual = 0 /\ c.reim = c.afterV

\* An ineligible employee whose afterV is not 0
C4_Witness ==
    \E k \in Computed :
        LET c == bonusCalculations[k]
        IN  ~c.isEligible /\ c.afterV # 0 /\ c.reim = c.afterV

----------------------------------------------------------------------------
(* C5 *)

LoanAlternatives(id) == { NoMap, MapOf(id :> 50000), MapOf(id :> 120050) }

----------------------------------------------------------------------------
(* C6 *)

\* C6: finalRTGS is a whole number of currency units
C6_FinalWhole ==
    \A k \in Computed : bonusCalculations[k].finalRTGS % 100 = 0

\* An employee whose payout before rounding has a fraction, under an
\* override percentage
C6_Witness ==
    \E k \in Computed :
        /\ LocalsAt(k).finalRTGS % 100 # 0
        /\ MapHas(PercentagesUsed, bonusCalculations[k].empId)
        /\ bonusCalculations[k].totalGrossSalary > 0

----------------------------------------------------------------------------
(* C7 *)

\* The computations a comparison record was made for
Compared == IF Done /\ ~comparisonResults.isNull THEN DOMAIN bonusCalculations
            ELSE { }

\* Each of the seven differences between a computation and its HR entry is
\* at most one currency unit
SevenWithinOne(c, hr) ==
    /\ MathAbs(c.totalGrossSalary - hr.grossSal) <= 100
    /\ MathAbs(c.gross2 - hr.gross02) <= 100
    /\ MathAbs(c.register - hr.register) <= 100
    /\ MathAbs(c.actual - hr.actual) <= 100
    /\ MathAbs(c.unpaid - hr.unpaid) <= 100
    /\ MathAbs(c.finalRTGS - hr.bonus) <= 100
    /\ MathAbs(c.reim - hr.reim) <= 100

\* C7, as claimed: an employee with an HR entry is MATCH exactly when each of
\* the seven absolute differences is at most 1, and MISMATCH otherwise.
C7_Claimed ==
    \A k \in Compared :
        LET c == bonusCalculations[k]
        IN  c.empId \in DOMAIN hrBonusMap =>
              comparisonResults.rows[k].status =
                 (IF SevenWithinOne(c, hrBonusMap[c.empId]) THEN "MATCH"
                  ELSE "MISMATCH")

\* The same statement of the handler of /api/process alone
ProcessStatusByMargin == pc = "process_done" => C7_Claimed

\* An HR entry exactly one unit below the computed values on every field,
\* compared by the handler of /api/process
ProcessOneUnitApart ==
    \E k \in Compared :
        LET c == bonusCalculations[k]
        IN  /\ pc = "process_done"
            /\ c.empId \in DOMAIN hrBonusMap
            /\ c.finalRTGS - hrBonusMap[c.empId].bonus = 100
            /\ c.register - hrBonusMap[c.empId].register = 100
            /\ comparisonResults.rows[k].status = "MATCH"

----------------------------------------------------------------------------
(* C8 *)

\* C8, as claimed: an employee without an HR entry is MISSING, from the
\* system only, and never MATCH or MISMATCH.
C8_Claimed ==
    \A k \in Compared :
        LET c == bonusCalculations[k]
        IN  c.empId \notin DOMAIN hrBonusMap =>
              /\ comparisonResults.rows[k].status = "MISSING"
              /\ comparisonResults.rows[k].source = "system_only"

\* The same statement of the handler of /api/process alone
ProcessMissing == pc = "process_done" => C8_Claimed

\* An employee without HR entry compared by the handler of /api/process
ProcessMissingReached ==
    \E k \in Compared :
        /\ pc = "process_done"
        /\ bonusCalculations[k].empId \notin DOMAIN hrBonusMap
        /\ bonusCalculations[k].finalRTGS = 0

----------------------------------------------------------------------------
(* C9 *)

\* C9: an employee "143" or "914" of department "W" whose override in the
\* percentage map is 15 has bonusPercent 15
C9_ExceptionOverride ==
    \A k \in Computed :
        LET c == bonusCalculations[k]
        IN  ( /\ c.empId \in { "143", "914" }
              /\ c.department = "W"
              /\ MapHas(PercentagesUsed, c.empId)
              /\ PercentagesUsed.entries[c.empId] = 1500 )
            => c.bonusPercent = 1500

\* Employee "143" of department "W" with an override of 15, computed
C9_Witness ==
    \E k \in Computed :
        LET c == bonusCalculations[k]
        IN  /\ c.empId = "143"
            /\ c.department = "W"
            /\ MapHas(PercentagesUsed, c.empId)
            /\ PercentagesUsed.entries[c.empId] = 1500
            /\ c.bonusPercent = 1500

----------------------------------------------------------------------------
(* C10 *)

----------------------------------------------------------------------------
(* C11 *)

IsStaffType(department) ==
    department = "S" \/ department = "NRTM" \/ StartsWith(department, "Sci Prec")

\* C11: an employee of a staff-type department ("S", "NRTM" or starting
\* with "Sci Prec") whose id has an entry in the percentage map has that
\* entry as bonusPercent
C11_Claimed ==
    \A k \in Computed :
        LET c == bonusCalculations[k]
        IN  (IsStaffType(c.department) /\ MapHas(PercentagesUsed, c.empId))
            => c.bonusPercent = PercentagesUsed.entries[c.empId]

----------------------------------------------------------------------------
(* C12 *)

\* C12: isEligible is true for "S", "NRTM" and "Sci Prec..." whatever the
\* service; for "W" and "M" it is true exactly when serviceMonths >= 6; for
\* every other department it is true
C12_Eligibility ==
    \A k \in Computed :
        LET c == bonusCalculations[k]
        IN  /\ IsStaffType(c.department) => c.isEligible
            /\ c.department \in { "W", "M" } =>
                  (c.isEligible <=> c.serviceMonths >= 6)
            /\ (~IsStaffType(c.department) /\ c.department \notin { "W", "M" })
                  => c.isEligible

\* A "W" employee of four service months found not eligible
C12_Witness ==
    \E k \in Computed :
        LET c == bonusCalculations[k]
        IN  /\ c.department = "W"
            /\ c.serviceMonths = 4
            /\ ~c.isEligible

----------------------------------------------------------------------------
(* C13 *)

\* The slots of December to August, by position in monthlySalaries
DecToAug == 2..10

\* The sum of the salaries of the slots S
RECURSIVE SlotSum(_, _)
SlotSum(slots, S) ==
    IF S = { } THEN 0
    ELSE LET i == CHOOSE j \in S : TRUE
         IN  slots[i].v + SlotSum(slots, S \ { i })

\* m is the arithmetic mean of the slots S rounded to a whole unit, halves
\* upwards
IsRoundedMean(m, slots, S) ==
    /\ m % 100 = 0
    /\ Cardinality(S) * (m - 50) <= SlotSum(slots, S)
    /\ SlotSum(slots, S) < Cardinality(S) * (m + 50)

AugustMissing(slots) == slots[10].isNull \/ slots[10].v < 100

\* C13 as claimed: the estimate is 0 when the August salary is absent or
\* < 1, and otherwise the rounded mean of all positive salaries of
\* December to August
C13_Claimed ==
    \A k \in Computed :
        LET c == bonusCalculations[k]
            slots == c.monthlySalaries
            positive == { i \in DecToAug : ~slots[i].isNull /\ slots[i].v > 0 }
        IN  IF AugustMissing(slots) THEN c.octSalary = 0
            ELSE IsRoundedMean(c.octSalary, slots, positive)

\* C13, amended: the estimate is 0 when the August salary is absent or < 1
\* or when no salary of December to August is above 1, and otherwise the
\* rounded mean of the salaries of December to August that are above 1
C13_OctEstimate ==
    \A k \in Computed :
        LET c == bonusCalculations[k]
            slots == c.monthlySalaries
            aboveOne == { i \in DecToAug : ~slots[i].isNull /\ slots[i].v > 100 }
        IN  IF AugustMissing(slots) \/ aboveOne = { } THEN c.octSalary = 0
            ELSE IsRoundedMean(c.octSalary, slots, aboveOne)

\* An August salary of 2.5 next to a December salary of exactly 1: the
\* estimate is 3, the August salary alone rounded
C13_Witness ==
    \E k \in Computed :
        LET c == bonusCalculations[k]
        IN  /\ ~c.monthlySalaries[10].isNull /\ c.monthlySalaries[10].v = 250
            /\ ~c.monthlySalaries[2].isNull /\ c.monthlySalaries[2].v = 100
            /\ c.octSalary = 300

----------------------------------------------------------------------------
(* C14 *)

\* The timeline of a staff employee whose only record is August = 50,000
OnlyAugust(c) ==
    /\ c.department = "S"
    /\ c.monthlyData = << [month |-> "AUG-25", salary |-> 5000000,
                           department |-> "S"] >>

\* C14 as claimed: that employee's 12th-month estimate is 0
C14_Claimed ==
    \A k \in Computed : OnlyAugust(bonusCalculations[k])
                           => bonusCalculations[k].octSalary = 0

\* C14, amended: that employee's 12th-month estimate is 50,000
C14_OnlyAugust ==
    \A k \in Computed : OnlyAugust(bonusCalculations[k])
                           => bonusCalculations[k].octSalary = 5000000

\* That employee computed, with a gross total of August plus the estimate
C14_Witness ==
    \E k \in Computed :
        /\ OnlyAugust(bonusCalculations[k])
        /\ bonusCalculations[k].totalGrossSalary = 10000000

----------------------------------------------------------------------------
(* C20 *)

\* The fiscal month of a record, as a slot of monthlySalaries; 0 if none
SlotOf(data) ==
    IF monthNameOf(data.month) \in DOMAIN monthMapping
    THEN monthMapping[monthNameOf(data.month)] + 1 ELSE 0

\* C20: each of the 11 slots holds the salary of the first record of the
\* timeline for that month with salary > 0, and null when there is none
C20_Claimed ==
    \A k \in Computed :
        LET c == bonusCalculations[k]
            md == c.monthlyData
        IN  \A slot \in 1..11 :
               LET hits == { i \in DOMAIN md :
                               SlotOf(md[i]) = slot /\ md[i].salary > 0 }
               IN  IF hits = { } THEN c.monthlySalaries[slot].isNull
                   ELSE /\ ~c.monthlySalaries[slot].isNull
                        /\ c.monthlySalaries[slot].v =
                              md[CHOOSE i \in hits : \A j \in hits : i <= j].salary

----------------------------------------------------------------------------
(* C15 *)

\* The uploads a handler has parsed, with their cohort
ParsedFiles ==
    IF pc \in { "process_done", "calculate_done" }
    THEN { [file |-> staffFile, worker |-> FALSE],
           [file |-> workerFile, worker |-> TRUE] }
    ELSE { }

\* The data rows of the cohort's sheets in a parsed upload f, as
\* << sheet, row >> positions
DataRows(f) ==
    IF f.file.kind # "workbook" THEN { }
    ELSE { p \in UNION { { << j, i >> : i \in DOMAIN f.file.sheets[j].rows } :
                            j \in DOMAIN f.file.sheets } :
             /\ isCohortSheet(f.file.sheets[p[1]].name, f.worker)
             /\ f.file.sheets[p[1]].rows[p[2]].rowNumber >
                   (IF f.worker THEN 2 ELSE 3) }

\* A sentinel row: the id is "N" or starts with "N", or the joining-date
\* text is "N"
SentinelRow(row) ==
    \/ (row.empId # "" /\ Head(CharsOf(row.empId)) = "N")
    \/ (row.doj.kind = "text" /\ UpperOf(row.doj.text) = "N")

HasRecordOf(person, sheetName, row) ==
    /\ person.empId = row.empId
    /\ \E m \in DOMAIN person.monthlyData :
          /\ person.monthlyData[m].month = normalizeMonthKey(sheetName)
          /\ person.monthlyData[m].salary = row.salary

\* The row is kept: an employee carries its monthly record, a computation
\* was made for that employee, and a report made from the computations
\* lists the employee in a department group
RowKept(sheetName, row) ==
    /\ \E k \in DOMAIN employees : HasRecordOf(employees[k], sheetName, row)
    /\ \E k \in DOMAIN bonusCalculations :
          HasRecordOf(bonusCalculations[k], sheetName, row)
    /\ report.status # "none" =>
          /\ report.status = "ok"
          /\ \E dept \in DOMAIN report.departments :
                \E n \in DOMAIN report.departments[dept] :
                   report.departments[dept][n].empId = row.empId

\* C15 as claimed: a sentinel row that has a name is never dropped, also
\* when its salary is 0
C15_Claimed ==
    \A f \in ParsedFiles : \A p \in DataRows(f) :
        LET sheet == f.file.sheets[p[1]]
            row == sheet.rows[p[2]]
        IN  (SentinelRow(row) /\ row.name # "") => RowKept(sheet.name, row)

\* C15, amended: a sentinel row that has an id other than "0" and a name
\* other than "total" (and, in the worker file, an id other than "total")
\* is never dropped, also when its salary is 0
C15_SentinelKept ==
    \A f \in ParsedFiles : \A p \in DataRows(f) :
        LET sheet == f.file.sheets[p[1]]
            row == sheet.rows[p[2]]
        IN  ( /\ SentinelRow(row)
              /\ row.name # "" /\ UpperOf(row.name) # "TOTAL"
              /\ row.empId # "" /\ row.empId # "0"
              /\ f.worker => UpperOf(row.empId) # "TOTAL" )
            => RowKept(sheet.name, row)

\* A report that lists, in group "N", a sentinel employee of salary 0
C15_Witness ==
    /\ report.status = "ok"
    /\ \E f \in ParsedFiles : \E p \in DataRows(f) :
          LET row == f.file.sheets[p[1]].rows[p[2]]
          IN  /\ row.empId = "N" /\ row.name = "Asha" /\ row.salary = 0
              /\ "N" \in DOMAIN report.departments
              /\ report.departments["N"][1].empId = "N"
              /\ report.departments["N"][1].totalGrossSalary = 0

----------------------------------------------------------------------------
(* C16 *)

\* The sequence s without its element i
RemoveAt(s, i) == SubSeq(s, 1, i - 1) \o SubSeq(s, i + 1, Len(s))

\* The upload f without the row at position p
WithoutRow(f, p) ==
    [f.file EXCEPT !.sheets[p[1]].rows = RemoveAt(@, p[2])]

NotApplicableRow(row) ==
    /\ ~SentinelRow(row)
    /\ \/ row.doj.kind = "empty"
       \/ /\ row.doj.kind = "text"
          /\ UpperOf(row.doj.text) \in { "NA", "N.A", "N.A.", "N/A", "" }

----------------------------------------------------------------------------
(* C17 *)

\* Two computations made from identical inputs: everything but the id
SameInputs(c1, c2) ==
    /\ c1.department = c2.department
    /\ c1.doj = c2.doj
    /\ c1.monthlyData = c2.monthlyData
    /\ c1.isCashSalary = c2.isCashSalary
    /\ ~MapHas(PercentagesUsed, c1.empId) /\ ~MapHas(PercentagesUsed, c2.empId)
    /\ c1.empId \notin customExceptions /\ c2.empId \notin customExceptions

\* C17: within one run two employees with identical inputs get identical
\* serviceMonths and bonusPercent, also when the clock advances during the
\* run
C17_Claimed ==
    \A k1 \in Computed, k2 \in Computed :
        SameInputs(bonusCalculations[k1], bonusCalculations[k2]) =>
            /\ bonusCalculations[k1].serviceMonths = bonusCalculations[k2].serviceMonths
            /\ bonusCalculations[k1].bonusPercent = bonusCalculations[k2].bonusPercent

----------------------------------------------------------------------------
(* C18 *)

\* C18: a request whose staff or worker workbook fails to parse does not
\* end in a successful response
C18_Claimed ==
    (staffFile.kind = "corrupt" \/ workerFile.kind = "corrupt")
        => pc \notin { "process_done", "calculate_done" }

----------------------------------------------------------------------------
(* C19 *)

\* The percentage of computation c was resolved by tiering
Tiered(c) ==
    /\ ~(isWorkerDept(c.department) /\ c.empId \notin customExceptions)
    /\ ~MapHas(PercentagesUsed, c.empId)

\* C19: a tiered percentage agrees with the employee's serviceMonths: 10
\* below 12 months, 12 from 12 to below 24 months, 8.33 from 24 months
C19_Claimed ==
    \A k \in Computed :
        LET c == bonusCalculations[k]
        IN  Tiered(c) =>
                c.bonusPercent = IF c.serviceMonths < 12 THEN 1000
                                 ELSE IF c.serviceMonths < 24 THEN 1200
                                 ELSE 833

----------------------------------------------------------------------------
(* C21 *)

\* C21: after normalization every employee's timeline holds at most one
\* monthly record per month key
C21_Claimed ==
    \A k \in DOMAIN employees :
        \A i \in DOMAIN employees[k].monthlyData :
            \A j \in DOMAIN employees[k].monthlyData :
                employees[k].monthlyData[i].month = employees[k].monthlyData[j].month
                    => i = j

----------------------------------------------------------------------------
(* C22 *)

\* A non-sentinel row whose joining-date cell holds a text that is neither
\* empty nor a not-applicable spelling nor a date
UnparsableRow(row) ==
    /\ ~SentinelRow(row)
    /\ row.doj.kind = "text"
    /\ UpperOf(row.doj.text) \notin { "NA", "N.A", "N.A.", "N/A", "" }
    /\ ~isValidDOJ(NativeDate(row.doj.text))

\* C22: a non-sentinel row whose joining date does not parse is skipped:
\* the employees are those of the upload without that row
C22_Claimed ==
    \A f \in ParsedFiles : \A p \in DataRows(f) :
        UnparsableRow(f.file.sheets[p[1]].rows[p[2]]) =>
            employees =
                IF f.worker
                THEN parseStaffFile(staffFile) \o parseWorkerFile(WithoutRow(f, p))
                ELSE parseStaffFile(WithoutRow(f, p)) \o parseWorkerFile(workerFile)

----------------------------------------------------------------------------
(* C23 *)

\* A row the skip rules name: the id or the name is missing or is "total"
\* in any case, or the row is not a sentinel row and has no positive salary
SkipRuleRow(row) ==
    \/ row.empId = "" \/ row.name = ""
    \/ UpperOf(row.empId) = "TOTAL" \/ UpperOf(row.name) = "TOTAL"
    \/ (~SentinelRow(row) /\ row.salary <= 0)

\* C23: such a row is skipped entirely in both normalizers: it creates no
\* employee, appends no record and changes no department, so the employees
\* are those of the upload without that row
C23_Claimed ==
    \A f \in ParsedFiles : \A p \in DataRows(f) :
        SkipRuleRow(f.file.sheets[p[1]].rows[p[2]]) =>
            employees =
                IF f.worker
                THEN parseStaffFile(staffFile) \o parseWorkerFile(WithoutRow(f, p))
                ELSE parseStaffFile(WithoutRow(f, p)) \o parseWorkerFile(workerFile)

----------------------------------------------------------------------------
(* C24 *)

\* Every data row of the parsed uploads that carries the id is a sentinel
\* row
OnlySentinelRowsOf(id) ==
    \A f \in ParsedFiles : \A p \in DataRows(f) :
        f.file.sheets[p[1]].rows[p[2]].empId = id =>
            SentinelRow(f.file.sheets[p[1]].rows[p[2]])

\* C24: the monthly record made from a sentinel row has department "N", and
\* an employee built from sentinel rows has top-level department "N",
\* whatever department the sheet row carried
C24_Claimed ==
    \A f \in ParsedFiles : \A p \in DataRows(f) :
        LET sheet == f.file.sheets[p[1]]
            row == sheet.rows[p[2]]
        IN  SentinelRow(row) =>
                \A k \in DOMAIN employees :
                    employees[k].empId = row.empId =>
                        /\ \A m \in DOMAIN employees[k].monthlyData :
                              ( /\ employees[k].monthlyData[m].month =
                                      normalizeMonthKey(sheet.name)
                                /\ employees[k].monthlyData[m].salary = row.salary )
                              => employees[k].monthlyData[m].department = "N"
                        /\ OnlySentinelRowsOf(row.empId) =>
                              employees[k].department = "N"

----------------------------------------------------------------------------
(* C25 *)

\* The department-scoped copies of a report, as << department, position >>
Copies ==
    IF report.status # "ok" THEN { }
    ELSE UNION { { << dept, n >> : n \in DOMAIN report.departments[dept] } :
                    dept \in DOMAIN report.departments }

\* The records of computation c that are tagged with the department
TaggedWith(c, dept) ==
    SelectSeq(c.monthlyData, LAMBDA md : md.department = dept)

\* r is the whole amount nearest to x, the half going up
IsRounded(r, x) == r % 100 = 0 /\ r - 50 <= x /\ x < r + 50

\* The copy is computation c scoped to the department: the records tagged
\* with it, their rounded sum as gross total, every other field as in c
ScopedCopyOf(copy, c, dept) ==
    /\ copy.department = dept
    /\ copy.monthlyData = TaggedWith(c, dept)
    /\ IsRounded(copy.totalGrossSalary,
                 SumSeq([i \in DOMAIN copy.monthlyData |->
                            copy.monthlyData[i].salary]))
    /\ [copy EXCEPT !.department = c.department,
                    !.monthlyData = c.monthlyData,
                    !.totalGrossSalary = c.totalGrossSalary] = c

\* C25: every department-scoped copy of a report is the scoped copy of one
\* of the computations, and the computations are still what calculateBonus
\* returned
C25_ScopedCopies ==
    /\ \A p \in Copies :
          \E k \in DOMAIN bonusCalculations :
             ScopedCopyOf(report.departments[p[1]][p[2]], bonusCalculations[k], p[1])
    /\ report.status = "ok" =>
          bonusCalculations =
              calculateBonus(employees, DueVouchersUsed, LoansUsed,
                             PercentagesUsed, clockReads)

\* An employee paid 2.5 in department "W" and 2511 in department "S": the
\* copy in group "W" has the one record and 3 as gross total, the copy in
\* group "S" 2511, and the register of both is that of the computation
C25_Witness ==
    /\ report.status = "ok"
    /\ Len(bonusCalculations) = 1
    /\ DOMAIN report.departments = { "W", "S" }
    /\ report.departments["W"][1].totalGrossSalary = 300
    /\ report.departments["S"][1].totalGrossSalary = 251100
    /\ Len(report.departments["W"][1].monthlyData) = 1
    /\ Len(bonusCalculations[1].monthlyData) = 2
    /\ bonusCalculations[1].register > 0
    /\ report.departments["W"][1].register = bonusCalculations[1].register

----------------------------------------------------------------------------
(* C26 *)

\* The employees whose joining date is a valid Date: neither missing nor
\* unparsable
WithJoiningDate(emps) == SelectSeq(emps, LAMBDA e : e.doj.kind = "date")

\* C26: a direct call of calculateBonus does not raise and returns one
\* record for each employee with a valid joining date, in input order
C26_Claimed ==
    pc \in { "called", "threw" } =>
        /\ pc = "called"
        /\ Len(bonusCalculations) = Len(WithJoiningDate(employees))
        /\ \A k \in DOMAIN bonusCalculations :
              /\ bonusCalculations[k].empId = WithJoiningDate(employees)[k].empId
              /\ bonusCalculations[k].doj = WithJoiningDate(employees)[k].doj

----------------------------------------------------------------------------
(* C27 *)

\* The ledger rows below the header of a "Sheet1" upload
LedgerDataRows(file) ==
    IF file.kind = "sheet1" /\ file.rows # << >> THEN Tail(file.rows) ELSE << >>

\* The sum of the amounts of the rows of an employee id in a category, the
\* id read trimmed and the category trimmed and in upper case
RECURSIVE LedgerSum(_, _, _)
LedgerSum(rows, id, category) ==
    IF rows = << >> THEN 0
    ELSE (IF empCodeOf(Head(rows)) = id /\ categoryOf(Head(rows)) = category
          THEN Head(rows).dueVC ELSE 0)
         + LedgerSum(Tail(rows), id, category)

\* The employee ids of the rows
LedgerIds(rows) == { empCodeOf(rows[i]) : i \in DOMAIN rows } \ { "" }

\* The entries hold, for every id, the sums of its "A" and of its "U" rows
HoldsSums(entries, rows) ==
    /\ DOMAIN entries \subseteq LedgerIds(rows)
    /\ \A id \in LedgerIds(rows) :
          IF id \in DOMAIN entries
          THEN /\ entries[id].alreadyPaid = LedgerSum(rows, id, "A")
               /\ entries[id].unpaid = LedgerSum(rows, id, "U")
          ELSE /\ LedgerSum(rows, id, "A") = 0
               /\ LedgerSum(rows, id, "U") = 0

\* The orders of n rows
Orders(n) == { f \in [1..n -> 1..n] : \A i, j \in 1..n : f[i] = f[j] => i = j }

----------------------------------------------------------------------------
(* C28 *)

\* A department-scoped copy of the report
CopyAt(p) == report.departments[p[1]][p[2]]

\* C28, as claimed: in every row of the report the Register formula
\* evaluates to the register of the computation and the Final RTGS formula
\* to its finalRTGS, in the staff and in the worker sheets
C28_Claimed ==
    \A p \in Copies :
       /\ registerCellOf(CopyAt(p), p[1]) = NumberValue(CopyAt(p).register)
       /\ finalRTGSCellOf(CopyAt(p), p[1]) = NumberValue(CopyAt(p).finalRTGS)

----------------------------------------------------------------------------
(* C29 *)

\* C29, as claimed: in every record calculateBonus emitted, afterV is
\* register - (alreadyPaid + unpaid) over the emitted values
C29_Claimed ==
    \A k \in DOMAIN bonusCalculations :
       bonusCalculations[k].afterV =
          bonusCalculations[k].register
          - (bonusCalculations[k].alreadyPaid + bonusCalculations[k].unpaid)

----------------------------------------------------------------------------
(* C30 *)

\* The department tags of the monthly records of computation c
TagsOf(c) == { c.monthlyData[i].department : i \in DOMAIN c.monthlyData }

\* The department-scoped copies of computation c in the report
CopiesOf(c) == { p \in Copies : ScopedCopyOf(CopyAt(p), c, p[1]) }

\* The sum of totalGrossSalary over a set of copies
RECURSIVE GrossOfCopies(_)
GrossOfCopies(ps) ==
    IF ps = { } THEN 0
    ELSE LET p == CHOOSE q \in ps : TRUE
         IN  CopyAt(p).totalGrossSalary + GrossOfCopies(ps \ { p })

\* The sum of the salaries of the monthly records of computation c
SalariesOf(c) == SumSeq([i \in DOMAIN c.monthlyData |-> c.monthlyData[i].salary])

\* C30, as claimed: every computation of a report is in at least one
\* department group and exactly once in the group of each department tag
\* of its monthly records, and the gross totals of its copies add up to
\* the salaries of all its monthly records
C30_Claimed ==
    report.status = "ok" =>
       \A k \in DOMAIN bonusCalculations :
          /\ CopiesOf(bonusCalculations[k]) # { }
          /\ \A t \in TagsOf(bonusCalculations[k]) :
                Cardinality({ p \in CopiesOf(bonusCalculations[k]) : p[1] = t }) = 1
          /\ GrossOfCopies(CopiesOf(bonusCalculations[k]))
                = SalariesOf(bonusCalculations[k])

====
